---- MODULE Spec2Model ----
(***************************************************************************)
(* hs2sffree: HubSpot -> Salesforce migration.                             *)
(*                                                                         *)
(* Values.  A Python str is a sequence of fragments whose concatenation is *)
(* the string: single characters where the code looks inside the string    *)
(* (addresses, close dates), whole words elsewhere.  Python None is the    *)
(* one-fragment value None below, which no string of the model equals; a   *)
(* Python int n is the tagged value PyInt(n), the numeral n as a fragment. *)
(* A Python dict is a sequence of <<key, value>> pairs in insertion order, *)
(* a Python list is a sequence.                                            *)
(***************************************************************************)
EXTENDS Integers, Sequences, FiniteSets, TLC

VARIABLES
    store,      \* the rows of the companies table of companies.sqlite
    call        \* the last call on the store or of a function: [op, args, ret, exc]

None == <<"<None>">>

\* a Python int, by its numeral
PyInt(numeral) == <<"<int>", numeral>>

\* Python truthiness of a str | None | int | list | dict value: `not v`
Falsy(v) == v = None \/ v = <<>> \/ v = PyInt("0")

Truthy(v) == ~Falsy(v)

\* The one element of a singleton set.  Only({e(v) : v \in {x}}) is e(x) with
\* x computed once, the way Python evaluates an assignment before its uses.
Only(S) == CHOOSE x \in S : TRUE

---------------------------------------------------------------------------
(* dict operations *)

DictKeys(d) == [i \in DOMAIN d |-> d[i][1]]

HasKey(d, k) == \E i \in DOMAIN d : d[i][1] = k

\* d.get(k): None when the key is absent
DictGet(d, k) ==
    IF HasKey(d, k) THEN d[CHOOSE i \in DOMAIN d : d[i][1] = k][2] ELSE None

\* d[k] = v: an existing key keeps its position, a new key is appended
DictPut(d, k, v) ==
    IF HasKey(d, k)
    THEN [i \in DOMAIN d |-> IF d[i][1] = k THEN <<k, v>> ELSE d[i]]
    ELSE Append(d, <<k, v>>)

\* a.update(b), also {**a, **b}: the keys of a keep their place and take b's
\* value, the keys only b has follow in b's order
DictUpdate(a, b) ==
    [i \in DOMAIN a |-> IF HasKey(b, a[i][1]) THEN <<a[i][1], DictGet(b, a[i][1])>> ELSE a[i]]
    \o SelectSeq(b, LAMBDA p : ~HasKey(a, p[1]))

\* d without key k (d.pop(k) leaves this behind)
DictRemove(d, k) == SelectSeq(d, LAMBDA p : p[1] # k)

\* list.remove(x) on a list that holds x once
ListRemove(l, x) == SelectSeq(l, LAMBDA y : y # x)

---------------------------------------------------------------------------
(* src/infra/address_parser.py *)

Letters == {"a", "b", "B", "M", "S"}

\* no character that stands for a comma
LineBreaks_none == {}

LineBreaks == {"\n", "\r"}

\* what \s matches
Whitespace == {" ", "\t", "\n", "\r", "\f"}

RECURSIVE DropWhile(_, _)
DropWhile(s, class) ==
    IF s # <<>> /\ Head(s) \in class THEN DropWhile(Tail(s), class) ELSE s

RECURSIVE ReSubRuns(_, _, _)
\* re.sub("[class]+", rep, s)
ReSubRuns(s, class, rep) ==
    IF s = <<>> THEN <<>>
    ELSE IF Head(s) \in class
         THEN <<rep>> \o ReSubRuns(DropWhile(Tail(s), class), class, rep)
         ELSE <<Head(s)>> \o ReSubRuns(Tail(s), class, rep)

RECURSIVE DropWhileEnd(_, _)
DropWhileEnd(s, class) ==
    IF s # <<>> /\ s[Len(s)] \in class
    THEN DropWhileEnd(SubSeq(s, 1, Len(s) - 1), class)
    ELSE s

\* str.strip()
Strip(s) == DropWhileEnd(DropWhile(s, Whitespace), Whitespace)

RECURSIVE Split(_, _)
\* str.split(sep): always at least one segment
Split(s, sep) ==
    IF \E i \in DOMAIN s : s[i] = sep
    THEN LET i == CHOOSE j \in DOMAIN s :
                      s[j] = sep /\ \A k \in 1..(j - 1) : s[k] # sep
         IN  <<SubSeq(s, 1, i - 1)>> \o Split(SubSeq(s, i + 1, Len(s)), sep)
    ELSE <<s>>

RECURSIVE Join(_, _)
\* sep.join(parts)
Join(parts, sep) ==
    IF parts = <<>> THEN <<>>
    ELSE IF Len(parts) = 1 THEN parts[1]
    ELSE parts[1] \o <<sep>> \o Join(Tail(parts), sep)

\* str.isalpha()
IsAlpha(part) == part # <<>> /\ \A i \in DOMAIN part : part[i] \in Letters

\* parse_address returns (city, street, zip)
ParseFailure == <<None, None, None>>

\* a split that gives every middle part to the zip code
zip_and_city_greedy(street, parts) ==
    <<parts[Len(parts)], street, Join(SubSeq(parts, 1, Len(parts) - 1), " ")>>

\* lines 39-61: parts is zip_city.strip().split(" "), two parts or more
zip_and_city(street, parts) ==
    LET first == parts[1]
        last == parts[Len(parts)]
        middle == SubSeq(parts, 2, Len(parts) - 1)
        hit == {i \in DOMAIN middle : IsAlpha(middle[i])}
        idx == IF hit = {} THEN Len(middle) + 1
               ELSE CHOOSE i \in hit : \A j \in hit : i <= j
        zip_parts == <<first>> \o SubSeq(middle, 1, idx - 1)
        city_parts == SubSeq(middle, idx, Len(middle)) \o <<last>>
    IN  <<Join(city_parts, " "), street, Join(zip_parts, " ")>>

\* a split that reads the first two segments of an address of two or more
street_and_zip_city_lenient(s) ==
    Only({IF Len(street_zip_city_list) >= 2
          THEN Only({IF Len(parts) < 2 THEN ParseFailure
                     ELSE zip_and_city(street_zip_city_list[1], parts) :
                     parts \in {Split(Strip(street_zip_city_list[2]), " ")}})
          ELSE ParseFailure :
          street_zip_city_list \in {Split(s, ",")}})

\* lines 22-37: s is the normalised address, not empty
street_and_zip_city(s) ==
    Only({IF Len(street_zip_city_list) = 2
          THEN Only({IF Len(parts) < 2 THEN ParseFailure
                     ELSE zip_and_city(street_zip_city_list[1], parts) :
                     parts \in {Split(Strip(street_zip_city_list[2]), " ")}})
          ELSE ParseFailure :
          street_zip_city_list \in {Split(s, ",")}})

parse_address(address) ==
    IF Falsy(address) THEN ParseFailure
    ELSE Only({IF s = <<>> THEN ParseFailure ELSE street_and_zip_city(s) :
               s \in {Strip(Only({ReSubRuns(t, Whitespace, " ") :
                                  t \in {ReSubRuns(address, LineBreaks, ",")}}))}})

---------------------------------------------------------------------------
(* src/field_mapping.py *)

ACCOUNTS_NAME_COLUMN == "Account Name"

COMPANY_ID_COLUMN == "company_id"

DEALTYPE_MAP ==
    << << <<"newbusiness">>, <<"New Business">> >>,
       << <<"existingbusiness">>, <<"Existing Business">> >> >>

DEALSTAGE_MAP ==
    << << <<"qualifiedtobuy">>, <<"Qualify">> >>,
       << <<"presentationscheduled">>, <<"Meet & Present">> >>,
       << <<"appointmentscheduled">>, <<"Propose">> >>,
       << <<"decisionmakerboughtin">>, <<"Negotiate">> >>,
       << <<"closedwon">>, <<"Closed Won">> >>,
       << <<"closedlost">>, <<"Closed Lost">> >> >>

\* FieldMap(src_field, transform_fun, required) under its Salesforce label
FieldMap(sf_label, src_field, transform_fun, required) ==
    [sf_label |-> sf_label, src_field |-> src_field,
     transform_fun |-> transform_fun, required |-> required]

ACCOUNT_FIELDS_MAP ==
    << FieldMap(ACCOUNTS_NAME_COLUMN, "name", "", TRUE),
       FieldMap("Account Website", "domain", "website", FALSE),
       FieldMap("Account Billing Street", "address", "_split_street_from_city_zip_code", FALSE),
       FieldMap("Account Billing City", "address", "ctx_city", FALSE),
       FieldMap("Account Billing Zip/Postal Code", "address", "ctx_zip_code", FALSE),
       FieldMap("Account Billing Country", "country", "", FALSE) >>

CONTACT_FIELDS_MAP ==
    << FieldMap(COMPANY_ID_COLUMN, "associations_companies_results", "_get_company_id_from_assoc", TRUE),
       FieldMap("Contact First Name", "firstname", "", TRUE),
       FieldMap("Contact Last Name", "lastname", "", TRUE),
       FieldMap("Contact Phone", "phone", "", FALSE),
       FieldMap("Contact Email", "email", "", FALSE),
       FieldMap("Contact Title", "jobtitle", "", FALSE),
       FieldMap("Contact Mailing Street", "address", "_split_street_from_city_zip_code", FALSE),
       FieldMap("Contact Mailing City", "address", "ctx_city", FALSE),
       FieldMap("Contact Mailing Zip/Postal Code", "address", "ctx_zip_code", FALSE),
       FieldMap("Contact Mailing Country", "country", "", FALSE) >>

DEAL_FIELDS_MAP ==
    << FieldMap(COMPANY_ID_COLUMN, "associations_companies_results", "_get_company_id_from_assoc", TRUE),
       FieldMap("Name", "dealname", "", TRUE),
       FieldMap("Type", "dealtype", "dealtype", FALSE),
       FieldMap("Stage", "dealstage", "dealstage", TRUE),
       FieldMap("Amount", "amount", "", FALSE),
       FieldMap("Close Date", "closedate", "_get_closedate", TRUE) >>

\* list(fields_map): the labels in declaration order
Labels(fields_map) == [i \in DOMAIN fields_map |-> fields_map[i].sf_label]

\* what a transform hands back: a value, a context patch when it returned a
\* tuple (isTuple), or the exception it raised
Returned(value) == [value |-> value, isTuple |-> FALSE, new_ctx |-> <<>>, exc |-> ""]

ReturnedTuple(value, new_ctx) ==
    [value |-> value, isTuple |-> TRUE, new_ctx |-> new_ctx, exc |-> ""]

Raised(exc) == [value |-> None, isTuple |-> FALSE, new_ctx |-> <<>>, exc |-> exc]

_split_street_from_city_zip_code(address, ctx) ==
    Only({ReturnedTuple(parsed[2], << <<"city", parsed[1]>>, <<"zip_code", parsed[3]>> >>) :
          parsed \in {parse_address(address)}})

\* associations_companies_results is a list of objects, each kept as its "id"
_get_company_id_from_assoc(associations_companies_results, ctx) ==
    IF Truthy(associations_companies_results) /\ Len(associations_companies_results) > 0
    THEN Returned(associations_companies_results[1])
    ELSE Returned(None)

\* a close date that is midnight of the day of the call whatever the record says
_get_closedate_today(closedate, now) ==
    Returned(now \o <<" ", "00:00:00">>)

\* now: the wall clock's date, which _get_closedate reads through datetime.now()
_get_closedate(closedate, now) ==
    IF Truthy(closedate)
    THEN Returned(SelectSeq([i \in DOMAIN closedate |->
                                IF closedate[i] = "T" THEN " " ELSE closedate[i]],
                            LAMBDA c : c # "Z"))
    ELSE Returned(now \o <<" ", "00:00:00">>)

\* a website that is copied as null when the company has no domain
website_or_null(domain, ctx) ==
    IF domain = None THEN Returned(None) ELSE Returned(<<"https://">> \o domain)

\* lambda domain, _: "https://" + domain, which cannot add None to a str
website(domain, ctx) ==
    IF domain = None THEN Raised("TypeError") ELSE Returned(<<"https://">> \o domain)

\* field.transform_fun(value, ctx)
Transform(transform_fun, value, ctx, now) ==
    CASE transform_fun = "website" -> website(value, ctx)
      [] transform_fun = "_split_street_from_city_zip_code" ->
            _split_street_from_city_zip_code(value, ctx)
      [] transform_fun = "ctx_city" ->
            IF HasKey(ctx, "city") THEN Returned(DictGet(ctx, "city")) ELSE Raised("KeyError")
      [] transform_fun = "ctx_zip_code" ->
            IF HasKey(ctx, "zip_code") THEN Returned(DictGet(ctx, "zip_code")) ELSE Raised("KeyError")
      [] transform_fun = "_get_company_id_from_assoc" ->
            _get_company_id_from_assoc(value, ctx)
      [] transform_fun = "dealtype" -> Returned(DictGet(DEALTYPE_MAP, value))
      [] transform_fun = "dealstage" -> Returned(DictGet(DEALSTAGE_MAP, value))
      [] transform_fun = "_get_closedate" -> _get_closedate(value, now)

\* a loop turn that stores no label for a value that is None
build_attrs_step_skip_null(acc, field, hs_record, now) ==
    IF acc.exc # "" THEN acc
    ELSE IF field.transform_fun # ""
    THEN Only({IF result.exc # "" THEN [acc EXCEPT !.exc = result.exc]
               ELSE [attrs |-> IF result.value = None THEN acc.attrs
                               ELSE DictPut(acc.attrs, field.sf_label, result.value),
                     ctx |-> IF result.isTuple THEN DictUpdate(acc.ctx, result.new_ctx)
                             ELSE acc.ctx,
                     exc |-> ""] :
               result \in {Transform(field.transform_fun,
                                     DictGet(hs_record, field.src_field), acc.ctx, now)}})
    ELSE IF DictGet(hs_record, field.src_field) = None THEN acc
    ELSE [acc EXCEPT !.attrs = DictPut(acc.attrs, field.sf_label,
                                       DictGet(hs_record, field.src_field))]

\* one turn of build_attrs' loop (lines 109-124) on the state [attrs, ctx, exc]
build_attrs_step(acc, field, hs_record, now) ==
    IF acc.exc # "" THEN acc
    ELSE IF field.transform_fun # ""
    THEN Only({IF result.exc # "" THEN [acc EXCEPT !.exc = result.exc]
               ELSE [attrs |-> DictPut(acc.attrs, field.sf_label, result.value),
                     ctx |-> IF result.isTuple THEN DictUpdate(acc.ctx, result.new_ctx)
                             ELSE acc.ctx,
                     exc |-> ""] :
               result \in {Transform(field.transform_fun,
                                     DictGet(hs_record, field.src_field), acc.ctx, now)}})
    ELSE [acc EXCEPT !.attrs = DictPut(acc.attrs, field.sf_label,
                                       DictGet(hs_record, field.src_field))]

RECURSIVE build_attrs_loop(_, _, _, _, _)
\* for sf_label, field in fields_map.items(), from the i-th mapping on
build_attrs_loop(acc, i, fields_map, hs_record, now) ==
    IF i > Len(fields_map) THEN acc
    ELSE Only({build_attrs_loop(next, i + 1, fields_map, hs_record, now) :
               next \in {build_attrs_step(acc, fields_map[i], hs_record, now)}})

\* build_attrs whose ctx outlives the call: it starts from the context the
\* previous record left behind
build_attrs_shared_ctx(fields_map, hs_record, now) ==
    IF fields_map # <<>> /\ hs_record = None
    THEN [attrs |-> <<>>, ctx |-> <<>>, exc |-> "AttributeError"]
    ELSE Only({build_attrs_loop([attrs |-> <<>>, ctx |-> left, exc |-> ""],
                               1, fields_map, hs_record, now) :
               left \in {IF call.op = "build_attrs" /\ call.exc = ""
                         THEN build_attrs_loop([attrs |-> <<>>, ctx |-> <<>>, exc |-> ""],
                                               1, call.args[1], call.args[2],
                                               call.args[3]).ctx
                         ELSE <<>>}})

\* build_attrs(fields_map, hs_record): [attrs, ctx, exc]; a record that is
\* None has no .get (AttributeError)
build_attrs(fields_map, hs_record, now) ==
    IF fields_map # <<>> /\ hs_record = None
    THEN [attrs |-> <<>>, ctx |-> <<>>, exc |-> "AttributeError"]
    ELSE build_attrs_loop([attrs |-> <<>>, ctx |-> <<>>, exc |-> ""],
                          1, fields_map, hs_record, now)

\* the scan that runs to the last required mapping without a value
last_missing_field(fields_map, attrs) ==
    LET missing == {i \in DOMAIN fields_map :
                        fields_map[i].required /\ Falsy(DictGet(attrs, fields_map[i].sf_label))}
    IN  IF missing = {} THEN None
        ELSE LET i == CHOOSE j \in missing : \A k \in missing : j >= k
             IN  <<fields_map[i].src_field, fields_map[i].sf_label>>

\* first_missing_field: <<src_field, sf_label>> or None
first_missing_field(fields_map, attrs) ==
    LET missing == {i \in DOMAIN fields_map :
                        fields_map[i].required /\ Falsy(DictGet(attrs, fields_map[i].sf_label))}
    IN  IF missing = {} THEN None
        ELSE LET i == CHOOSE j \in missing : \A k \in missing : j <= k
             IN  <<fields_map[i].src_field, fields_map[i].sf_label>>

---------------------------------------------------------------------------
(* src/infra/companies_db.py: the companies table, rows in insertion order *)

(* src/translator.py, build_sf_csvs: the files of `path` and the locals of the run *)
VARIABLES
    fs,                         \* the names of the files that exist in `path`
    pc,                         \* where build_sf_csvs stands
    engine,                     \* TRUE from initialize_db to close_db
    todo,                       \* rows left in the batches iter_batches has yet to hand out
    rows_count_in_file,         \* parquet_file.metadata.num_rows of the pass
    stats,                      \* stats of the running pass
    accounts_contacts_stats,    \* what _build_accounts_contacts returned
    written,                    \* rows written after the header, per CSV file
    last,                       \* the child row of the last loop iteration and where it went
    progress,                   \* the last call of progress_percent_callback
    aggregated_stats,           \* what build_sf_csvs returned
    failure                     \* the exception build_sf_csvs raised, <<>> when none

(* src/infra/hubspot.py, download_objects, and its caller download_hs_objects *)
VARIABLES
    download                    \* where the download stands and what it has done so far

joinvars == <<fs, pc, engine, todo, rows_count_in_file, stats, accounts_contacts_stats,
              written, last, progress, aggregated_stats, failure, download>>

\* Column("attrs", JSON): json.dumps on the way in, json.loads on the way out
JsonValue(v) == IF v = None THEN <<"null">> ELSE <<"\"">> \o v \o <<"\"">>

PyValue(j) == IF j = <<"null">> THEN None ELSE SubSeq(j, 2, Len(j) - 1)

json_dumps(attrs) == [i \in DOMAIN attrs |-> <<attrs[i][1], JsonValue(attrs[i][2])>>]

json_loads(text) == [i \in DOMAIN text |-> <<text[i][1], PyValue(text[i][2])>>]

\* Column("duplicate", Boolean): SQLite keeps 0 / 1
SqlBoolean(b) == IF b THEN 1 ELSE 0

\* a row that drops the flag it is given
RowUnflagged(id, attrs, name, duplicate) ==
    [id |-> id, attrs |-> json_dumps(attrs), name |-> name, duplicate |-> 0]

\* companies.insert().values(id=, attrs=, name=, duplicate=)
Row(id, attrs, name, duplicate) ==
    [id |-> id, attrs |-> json_dumps(attrs), name |-> name,
     duplicate |-> SqlBoolean(duplicate)]

NotNullFailed == "IntegrityError: NOT NULL constraint failed: companies.id"

UniqueFailed == "IntegrityError: UNIQUE constraint failed: companies.id"

\* sqlalchemy.exc.IntegrityError
IntegrityError == {NotNullFailed, UniqueFailed}

\* a key that only has to be non-null
PrimaryKeyNotNullOnly(table, row) ==
    IF row.id = None THEN NotNullFailed ELSE ""

\* the primary key constraint on one inserted row: "" when it is met
PrimaryKeyViolation(table, row) ==
    IF row.id = None THEN NotNullFailed
    ELSE IF \E i \in DOMAIN table : table[i].id = row.id THEN UniqueFailed
    ELSE ""

RECURSIVE InsertRows(_, _)
\* conn.execute(stmt, records): the rows go in one by one
InsertRows(table, rows) ==
    IF rows = <<>> THEN [table |-> table, exc |-> ""]
    ELSE LET v == PrimaryKeyViolation(table, Head(rows)) IN
         IF v # "" THEN [table |-> table, exc |-> v]
         ELSE InsertRows(Append(table, Head(rows)), Tail(rows))

\* an insert that overwrites the stored row of an id it is given again
Transaction_upsert(table, rows) ==
    [table |-> [i \in DOMAIN table |->
                   IF \E j \in DOMAIN rows : rows[j].id = table[i].id
                   THEN rows[CHOOSE j \in DOMAIN rows : rows[j].id = table[i].id]
                   ELSE table[i]]
               \o SelectSeq(rows, LAMBDA row :
                                \A i \in DOMAIN table : table[i].id # row.id),
     exc |-> ""]

\* an insert whose rows stay when a later row of the batch fails
Transaction_no_rollback(table, rows) == InsertRows(table, rows)

\* with db_engine.begin() as conn: commit, or roll back when the block raises
Transaction(table, rows) ==
    LET r == InsertRows(table, rows) IN
    IF r.exc # "" THEN [table |-> table, exc |-> r.exc] ELSE r

Outcome(table, ret, exc) == [store |-> table, ret |-> ret, exc |-> exc]

add_company(table, id, attrs, name, duplicate) ==
    IF Falsy(attrs) THEN Outcome(table, None, "ValueError: No attrs provided")
    ELSE LET t == Transaction(table, <<Row(id, attrs, name, duplicate)>>) IN
         Outcome(t.table, IF t.exc = "" THEN TRUE ELSE None, t.exc)

\* the returned key list is read by no caller and is left out (ret is None)
add_companies(table, id_attrs_list) ==
    IF Falsy(id_attrs_list) THEN Outcome(table, None, "ValueError: No companies provided")
    ELSE IF \E i \in DOMAIN id_attrs_list : Falsy(id_attrs_list[i][2])
    THEN Outcome(table, None, "ValueError: No attrs provided for company")
    ELSE LET records == [i \in DOMAIN id_attrs_list |->
                            Row(id_attrs_list[i][1], id_attrs_list[i][2],
                                id_attrs_list[i][3], id_attrs_list[i][4])]
             t == Transaction(table, records)
         IN  Outcome(t.table, None, t.exc)

\* a lookup that answers an unknown id with an empty record
get_company_or_default(table, id) ==
    IF Falsy(id) THEN Outcome(table, None, "ValueError: No id provided")
    ELSE LET found == {i \in DOMAIN table : table[i].id = id} IN
         IF found # {}
         THEN LET result == table[CHOOSE i \in found : TRUE] IN
              Outcome(table,
                      [attrs |-> json_loads(result.attrs),
                       duplicate |-> result.duplicate # 0],
                      "")
         ELSE Outcome(table, [attrs |-> <<>>, duplicate |-> FALSE], "")

get_company(table, id) ==
    IF Falsy(id) THEN Outcome(table, None, "ValueError: No id provided")
    ELSE LET found == {i \in DOMAIN table : table[i].id = id} IN
         IF found # {}
         THEN LET result == table[CHOOSE i \in found : TRUE] IN
              Outcome(table,
                      [attrs |-> json_loads(result.attrs),
                       duplicate |-> result.duplicate # 0],
                      "")
         ELSE Outcome(table, None, "ValueError: Company not found")

\* the WHERE clause without its duplicate filter
MatchesAnyFlag(table, name) ==
    {i \in DOMAIN table :
        table[i].name # None /\ name # None /\ table[i].name = name}

\* WHERE name IN (name_list) AND duplicate IS 0: in SQL a NULL name is equal
\* to nothing, so neither a NULL row nor a None entry ever matches
Matches(table, name) ==
    {i \in DOMAIN table :
        table[i].name # None /\ name # None /\ table[i].name = name
        /\ table[i].duplicate = 0}

\* name_to_id.get(n): the fetch order of the rows is the engine's, and the
\* last fetched row of a name wins, so any matching row's id can come back
IdsFor(table, name) ==
    IF Matches(table, name) = {} THEN {None}
    ELSE {table[i].id : i \in Matches(table, name)}

\* find_companies_by_name: rets is the set of lists the call can return
find_companies_by_name(table, name_list) ==
    IF Falsy(name_list)
    THEN [rets |-> {}, exc |-> "ValueError: No names list provided"]
    ELSE IF \E i, j \in DOMAIN name_list : i < j /\ name_list[i] = name_list[j]
    THEN [rets |-> {}, exc |-> "ValueError: Duplicate names in list"]
    ELSE [rets |-> {r \in [DOMAIN name_list ->
                              UNION {IdsFor(table, name_list[i]) : i \in DOMAIN name_list}] :
                        \A i \in DOMAIN name_list : r[i] \in IdsFor(table, name_list[i])},
          exc |-> ""]

---------------------------------------------------------------------------
(* src/translator.py: _persist_company *)

\* lines 98-105: (company_id, attrs, name) of every result, or the exception
\* build_attrs raised on the first result it could not map
id_attrs_of(results) ==
    Only({LET failed == {i \in DOMAIN results : built[i].exc # ""} IN
          IF failed # {}
          THEN [list |-> <<>>,
                exc |-> built[CHOOSE i \in failed : \A j \in failed : i <= j].exc]
          ELSE [list |-> [i \in DOMAIN results |->
                             <<DictGet(results[i], "id"), built[i].attrs,
                               DictGet(built[i].attrs, ACCOUNTS_NAME_COLUMN)>>],
                exc |-> ""] :
          built \in {[i \in DOMAIN results |->
                        build_attrs(ACCOUNT_FIELDS_MAP,
                                    DictGet(results[i], "properties"), None)]}})

RECURSIVE ListOfSet(_)
\* list(set(...)): the elements once each, in an order of the runtime's choosing
ListOfSet(S) ==
    IF S = {} THEN <<>>
    ELSE LET x == CHOOSE y \in S : TRUE IN <<x>> \o ListOfSet(S \ {x})

\* line 109: the first column of every row's attrs
uniq_names_of(id_attrs_list) ==
    ListOfSet({DictGet(id_attrs_list[i][2], Labels(ACCOUNT_FIELDS_MAP)[1]) :
                  i \in DOMAIN id_attrs_list})

\* a lookup result that is never consulted
name_to_duplicate_db_unseen(uniq_names, ids_seen_before) ==
    [i \in DOMAIN uniq_names |-> <<uniq_names[i], FALSE>>]

\* line 111: {name: bool(found)}
name_to_duplicate_db_of(uniq_names, ids_seen_before) ==
    [i \in DOMAIN uniq_names |-> <<uniq_names[i], Truthy(ids_seen_before[i])>>]

\* name_to_duplicate_db.get(name, False)
SeenInDb(name_to_duplicate_db, name) ==
    \E i \in DOMAIN name_to_duplicate_db :
        name_to_duplicate_db[i][1] = name /\ name_to_duplicate_db[i][2]

RECURSIVE mark_duplicates_db_only(_, _, _)
\* the walk without the names added on the way
mark_duplicates_db_only(id_attrs_list, name_to_duplicate_db, added_names) ==
    IF id_attrs_list = <<>> THEN <<>>
    ELSE LET row == Head(id_attrs_list) IN
         << <<row[1], row[2], row[3], SeenInDb(name_to_duplicate_db, row[3])>> >>
         \o mark_duplicates_db_only(Tail(id_attrs_list), name_to_duplicate_db, added_names)

RECURSIVE mark_duplicates(_, _, _)
\* lines 113-119: the walk over the page with the growing added_names
mark_duplicates(id_attrs_list, name_to_duplicate_db, added_names) ==
    IF id_attrs_list = <<>> THEN <<>>
    ELSE LET row == Head(id_attrs_list)
             duplicate == SeenInDb(name_to_duplicate_db, row[3]) \/ row[3] \in added_names
         IN  << <<row[1], row[2], row[3], duplicate>> >>
             \o mark_duplicates(Tail(id_attrs_list), name_to_duplicate_db,
                                added_names \cup {row[3]})

\* a page without companies that is passed over
persist_rows_skip_empty(table, id_attrs_list) ==
    IF id_attrs_list = <<>> THEN {Outcome(table, None, "")}
    ELSE UNION {LET found == find_companies_by_name(table, uniq_names) IN
                IF found.exc # "" THEN {Outcome(table, None, found.exc)}
                ELSE {add_companies(table,
                          mark_duplicates(id_attrs_list,
                              name_to_duplicate_db_of(uniq_names, ids_seen_before), {})) :
                      ids_seen_before \in found.rets} :
                uniq_names \in {uniq_names_of(id_attrs_list)}}

\* lines 107-121, once the page is mapped to id_attrs_list
persist_rows(table, id_attrs_list) ==
    UNION {LET found == find_companies_by_name(table, uniq_names) IN
           IF found.exc # "" THEN {Outcome(table, None, found.exc)}
           ELSE {add_companies(table,
                     mark_duplicates(id_attrs_list,
                         name_to_duplicate_db_of(uniq_names, ids_seen_before), {})) :
                 ids_seen_before \in found.rets} :
           uniq_names \in {uniq_names_of(id_attrs_list)}}

\* _persist_company(json, engine) with json["results"] = results: the set of
\* outcomes, one for every list find_companies_by_name can return
_persist_company(table, results) ==
    UNION {IF rows.exc # "" THEN {Outcome(table, None, rows.exc)}
           ELSE persist_rows(table, rows.list) :
           rows \in {id_attrs_of(IF Falsy(results) THEN <<>> ELSE results)}}

---------------------------------------------------------------------------
(* Inputs of the store's operations *)

Id1 == <<"c1">>
Id2 == <<"c2">>
Id3 == <<"c3">>
IdUnknown == <<"c9">>

NameN == <<"N">>
NameM == <<"M">>
NameX == <<"X">>

Attrs1 == << <<"param1", <<"value1">> >> >>
Attrs2 == << <<"param2", <<"value2">> >>, <<"param3", None>> >>

\* (id, attrs, name, duplicate) as add_company and add_companies take them
CompanyArgs ==
    << <<Id1, Attrs1, NameN, FALSE>>,
       <<Id2, Attrs2, NameN, TRUE>>,
       <<Id1, Attrs2, NameM, TRUE>>,
       <<Id3, Attrs1, NameN, FALSE>>,
       <<Id3, Attrs2, None, FALSE>>,
       <<None, Attrs1, NameN, FALSE>>,
       <<Id2, None, NameM, FALSE>> >>

MaxBatch == 2

MaxNames == 2

RECURSIVE SeqsUpTo(_, _)
\* the sequences over S of length at most n
SeqsUpTo(S, n) ==
    IF n = 0 THEN {<<>>}
    ELSE LET shorter == SeqsUpTo(S, n - 1) IN
         shorter \cup {Append(q, x) : q \in shorter, x \in S}

\* the id that is the empty string
IdEmpty == <<>>

LookupIds == {None, IdEmpty, Id1, Id2, Id3, IdUnknown}

LookupNames == {None, NameN, NameM, NameX}

---------------------------------------------------------------------------
(* The store's interface, called in any order *)

NoCall == [op |-> "", args |-> None, ret |-> None, exc |-> ""]

\* no call is outstanding: the caller takes the result (Return) before it
\* calls again
Idle == call.op = ""

Called(op, args, out) ==
    /\ store' = out.store
    /\ call' = [op |-> op, args |-> args, ret |-> out.ret, exc |-> out.exc]
    /\ UNCHANGED joinvars

AddCompany ==
    /\ Idle
    /\ \E k \in DOMAIN CompanyArgs :
        \E out \in {add_company(store, CompanyArgs[k][1], CompanyArgs[k][2],
                                CompanyArgs[k][3], CompanyArgs[k][4])} :
            Called("add_company", CompanyArgs[k], out)

AddCompanies ==
    /\ Idle
    /\ \E ks \in SeqsUpTo(DOMAIN CompanyArgs, MaxBatch) :
        \E id_attrs_list \in {[i \in DOMAIN ks |-> CompanyArgs[ks[i]]]} :
            \E out \in {add_companies(store, id_attrs_list)} :
                Called("add_companies", id_attrs_list, out)

GetCompany ==
    /\ Idle
    /\ \E id \in LookupIds :
        \E out \in {get_company(store, id)} : Called("get_company", id, out)

FindNames(name_list) ==
    /\ Idle
    /\ \E found \in {find_companies_by_name(store, name_list)} :
        IF found.exc # ""
        THEN Called("find_companies_by_name", name_list, Outcome(store, None, found.exc))
        ELSE \E ret \in found.rets :
                Called("find_companies_by_name", name_list, Outcome(store, ret, ""))

FindCompaniesByName ==
    \/ \E name_list \in SeqsUpTo(LookupNames, MaxNames) : FindNames(name_list)
    \/ FindNames(None)

Return ==
    /\ call.op # ""
    /\ call' = NoCall
    /\ UNCHANGED store
    /\ UNCHANGED joinvars

NextDb ==
    \/ AddCompany
    \/ AddCompanies
    \/ GetCompany
    \/ FindCompaniesByName
    \/ Return

---------------------------------------------------------------------------
(* Company pages as download_objects hands them to _persist_company *)

AddressBerlin == <<"M", "a", " ", "S", " ", "5", ",", " ", "1", "0", " ", "B", "a">>

\* a company of a page: its id and its properties, name or domain left out
\* when HubSpot has none
Company(id, name, domain) ==
    << <<"id", id>>,
       <<"properties", << <<"name", name>>, <<"domain", domain>>,
                          <<"address", AddressBerlin>>, <<"country", <<"DE">> >> >> >> >>

CompanyResults ==
    << Company(Id1, NameN, <<"n.io">>),
       Company(Id2, NameN, <<"n.io">>),
       Company(Id3, NameM, <<"m.io">>),
       Company(Id2, None, <<"x.io">>),
       Company(Id3, None, <<"x.io">>),
       Company(Id1, NameM, None) >>

\* a company HubSpot returned without the domain property
CompanyWithoutDomain(id, name) ==
    << <<"id", id>>,
       <<"properties", << <<"name", name>>, <<"address", AddressBerlin>>,
                          <<"country", <<"DE">> >> >> >> >>

MaxPageLen == 3

\* json_callback of the companies download: lambda json: _persist_company(json, engine)
PersistCompany ==
    /\ Idle
    /\ \E ks \in SeqsUpTo(DOMAIN CompanyResults, MaxPageLen) :
          \E results \in {[i \in DOMAIN ks |-> CompanyResults[ks[i]]]} :
              \E out \in _persist_company(store, results) :
                  Called("_persist_company", results, out)

NextIngest ==
    \/ PersistCompany
    \/ Return

---------------------------------------------------------------------------
(* src/settings.py *)

hubspot_api_companies_path == "/crm/objects/v3/companies"

hubspot_api_contacts_path == "/crm/objects/v3/contacts"

hubspot_api_deals_path == "/crm/objects/v3/deals"

contacts_filename == "contacts.parquet"

deals_filename == "deals.parquet"

companies_filename == "companies.sqlite"

csv_accounts_contacts_filename == "accounts_contacts.csv"

csv_errors_accounts_contacts_filename == "errors_accounts_contacts.csv"

csv_opportunities_filename == "opportunities.csv"

csv_errors_opportunities_filename == "errors_opportunities.csv"

---------------------------------------------------------------------------
(* src/translator.py: build_sf_csvs and its two join passes *)

OPPORTUNITIES_ACCOUNT_NAME_COLUMN == "Next Step"

ERROR_COLUMN == "Error"

\* ErrorCode.DUPLICATE_COMPANY.value
DUPLICATE_COMPANY == <<"Duplicate company name (Account Name)">>

\* ErrorCode.MISSING_VALUE.value, cut at its placeholders
MISSING_VALUE == <<"Missing value ", "$url_path$", " ", "$hs_name$", " (", "$sf_label$", ")">>

\* str.replace(old, new) on a string cut at the occurrences of old
Replace(str, old, new) == [i \in DOMAIN str |-> IF str[i] = old THEN new ELSE str[i]]

_build_missing_field_error(missing_field, path) ==
    Replace(Replace(Replace(MISSING_VALUE, "$url_path$", path),
                    "$hs_name$", missing_field[1]),
            "$sf_label$", missing_field[2])

_normalize_csv_empty_values(row) ==
    [i \in DOMAIN row |-> <<row[i][1], IF row[i][2] = None THEN <<>> ELSE row[i][2]>>]

\* csv.DictWriter(f, fieldnames).writerow(row): one cell per field name, empty
\* for a key the row lacks; a key that is no field name is a ValueError
writerow(fieldnames, row) ==
    IF \E i \in DOMAIN row : \A j \in DOMAIN fieldnames : fieldnames[j] # row[i][1]
    THEN [cells |-> <<>>, exc |-> "ValueError: dict contains fields not in fieldnames"]
    ELSE [cells |-> [j \in DOMAIN fieldnames |->
                        IF HasKey(row, fieldnames[j]) THEN DictGet(row, fieldnames[j])
                        ELSE <<>>],
          exc |-> ""]

\* the three files looked for from the last to the first
check_filenames_reversed == <<companies_filename, deals_filename, contacts_filename>>

\* build_sf_csvs, line 160
check_filenames == <<contacts_filename, deals_filename, companies_filename>>

\* lines 161-163: the files the loop would find absent, in its order; it
\* raises at the first
absent_files(files) == SelectSeq(check_filenames, LAMBDA filename : filename \notin files)

\* ValueError(f"No {filename} file found")
NoFileFound(filename) == <<"No ", filename, " file found">>

\* _build_accounts_contacts, lines 213-218
accounts_contacts_field_names ==
    Labels(ACCOUNT_FIELDS_MAP) \o ListRemove(Labels(CONTACT_FIELDS_MAP), COMPANY_ID_COLUMN)

\* _build_opportunities, lines 297-300
opportunities_field_names ==
    Append(ListRemove(Labels(DEAL_FIELDS_MAP), COMPANY_ID_COLUMN),
           OPPORTUNITIES_ACCOUNT_NAME_COLUMN)

\* the outcome of one loop iteration: the writer the row went to, its
\* diagnostic, the cells written, or the exception that ended the pass
Routed(stream, error_str, cells) ==
    [stream |-> stream, error_str |-> error_str, cells |-> cells, exc |-> ""]

\* a failed lookup that ends in the error stream instead of ending the pass
Aborted_to_error_stream(e) ==
    [stream |-> "error", error_str |-> <<e>>, cells |-> <<>>, exc |-> ""]

\* an exception that leaves the loop: nothing is written, nothing is counted
Aborted(e) == [stream |-> "", error_str |-> None, cells |-> <<>>, exc |-> e]

\* the child's own check, lines 233-238 and 314-317
child_error(fields_map, row, path) ==
    Only({IF Truthy(missing_field) THEN _build_missing_field_error(missing_field, path)
          ELSE None :
          missing_field \in {first_missing_field(fields_map, row)}})

\* the parent's check that keeps the first diagnostic found
company_error_any_order(error_str, company) ==
    Only({IF Truthy(missing_company_field)
          THEN _build_missing_field_error(missing_company_field, hubspot_api_companies_path)
          ELSE IF company.duplicate THEN DUPLICATE_COMPANY
          ELSE error_str :
          missing_company_field \in {first_missing_field(ACCOUNT_FIELDS_MAP, company.attrs)}})

\* the parent's check without the duplicate flag
company_error_no_duplicate(error_str, company) ==
    IF Truthy(error_str) THEN error_str
    ELSE Only({IF Truthy(missing_company_field)
               THEN _build_missing_field_error(missing_company_field,
                                               hubspot_api_companies_path)
               ELSE error_str :
               missing_company_field \in
                   {first_missing_field(ACCOUNT_FIELDS_MAP, company.attrs)}})

\* the parent's check, lines 249-256 and 326-333: error_str after it
company_error(error_str, company) ==
    IF Truthy(error_str) THEN error_str
    ELSE Only({IF Truthy(missing_company_field)
               THEN _build_missing_field_error(missing_company_field,
                                               hubspot_api_companies_path)
               ELSE IF company.duplicate THEN DUPLICATE_COMPANY
               ELSE error_str :
               missing_company_field \in
                   {first_missing_field(ACCOUNT_FIELDS_MAP, company.attrs)}})

\* lines 258-265 and 335-342: normalise the row and hand it to one writer
route(row, error_str, field_names) ==
    Only({IF Truthy(error_str)
          THEN Only({IF w.exc # "" THEN Aborted(w.exc)
                     ELSE Routed("error", error_str, w.cells) :
                     w \in {writerow(<<ERROR_COLUMN>> \o field_names,
                                     DictPut(normal, ERROR_COLUMN, error_str))}})
          ELSE Only({IF w.exc # "" THEN Aborted(w.exc)
                     ELSE Routed("valid", error_str, w.cells) :
                     w \in {writerow(field_names, normal)}}) :
          normal \in {_normalize_csv_empty_values(row)}})

\* a contact loop that joins the company only into rows whose own check passed
contact_row_merge_valid_only(table, row) ==
    Only({IF Truthy(company_id)
          THEN Only({IF company.exc # "" THEN Aborted(company.exc)
                     ELSE route(IF Truthy(error_str) THEN DictRemove(row, COMPANY_ID_COLUMN)
                                ELSE DictUpdate(company.ret.attrs,
                                                DictRemove(row, COMPANY_ID_COLUMN)),
                                company_error(error_str, company.ret),
                                accounts_contacts_field_names) :
                     company \in {get_company(table, company_id)}})
          ELSE route(DictRemove(row, COMPANY_ID_COLUMN), error_str,
                     accounts_contacts_field_names) :
          error_str \in {child_error(CONTACT_FIELDS_MAP, row, hubspot_api_contacts_path)},
          company_id \in {DictGet(row, COMPANY_ID_COLUMN)}})

\* one contact of the loop of _build_accounts_contacts, lines 231-265
contact_row(table, row) ==
    Only({IF Truthy(company_id)
          THEN Only({IF company.exc # "" THEN Aborted(company.exc)
                     ELSE route(DictUpdate(company.ret.attrs,
                                           DictRemove(row, COMPANY_ID_COLUMN)),
                                company_error(error_str, company.ret),
                                accounts_contacts_field_names) :
                     company \in {get_company(table, company_id)}})
          ELSE route(DictRemove(row, COMPANY_ID_COLUMN), error_str,
                     accounts_contacts_field_names) :
          error_str \in {child_error(CONTACT_FIELDS_MAP, row, hubspot_api_contacts_path)},
          company_id \in {DictGet(row, COMPANY_ID_COLUMN)}})

\* a deal loop that copies the company's website instead of its name
deal_row_website(table, row) ==
    Only({IF Truthy(company_id)
          THEN Only({IF company.exc # "" THEN Aborted(company.exc)
                     ELSE route(DictPut(DictRemove(row, COMPANY_ID_COLUMN),
                                        OPPORTUNITIES_ACCOUNT_NAME_COLUMN,
                                        DictGet(company.ret.attrs, "Account Website")),
                                company_error(error_str, company.ret),
                                opportunities_field_names) :
                     company \in {get_company(table, company_id)}})
          ELSE route(DictRemove(row, COMPANY_ID_COLUMN), error_str,
                     opportunities_field_names) :
          error_str \in {child_error(DEAL_FIELDS_MAP, row, hubspot_api_deals_path)},
          company_id \in {DictGet(row, COMPANY_ID_COLUMN)}})

\* one deal of the loop of _build_opportunities, lines 313-342
deal_row(table, row) ==
    Only({IF Truthy(company_id)
          THEN Only({IF company.exc # "" THEN Aborted(company.exc)
                     ELSE route(DictPut(DictRemove(row, COMPANY_ID_COLUMN),
                                        OPPORTUNITIES_ACCOUNT_NAME_COLUMN,
                                        DictGet(company.ret.attrs, ACCOUNTS_NAME_COLUMN)),
                                company_error(error_str, company.ret),
                                opportunities_field_names) :
                     company \in {get_company(table, company_id)}})
          ELSE route(DictRemove(row, COMPANY_ID_COLUMN), error_str,
                     opportunities_field_names) :
          error_str \in {child_error(DEAL_FIELDS_MAP, row, hubspot_api_deals_path)},
          company_id \in {DictGet(row, COMPANY_ID_COLUMN)}})

\* lines 260-266 and 337-343: the counters after one row
count_row_error_only(st, error_str) ==
    IF Truthy(error_str)
    THEN [total_rows |-> st.total_rows + 1, error_rows |-> st.error_rows + 1]
    ELSE st

count_row(st, error_str) ==
    [total_rows |-> st.total_rows + 1,
     error_rows |-> IF Truthy(error_str) THEN st.error_rows + 1 ELSE st.error_rows]

\* an errors file that is never removed
keep_errors_file(files, errors_csv_path, st) == files

\* lines 270-271 and 347-348: if 0 == stats["error_rows"]: errors_csv_path.unlink()
unlink_if_no_errors(files, errors_csv_path, st) ==
    IF 0 = st.error_rows THEN files \ {errors_csv_path} ELSE files

\* lines 194-202
aggregate(acs, os) ==
    << <<"accounts_contacts_total_rows", acs.total_rows>>,
       <<"accounts_contacts_valid_rows", acs.total_rows - acs.error_rows>>,
       <<"accounts_contacts_error_rows", acs.error_rows>>,
       <<"opportunities_total_rows", os.total_rows>>,
       <<"opportunities_valid_rows", os.total_rows - os.error_rows>>,
       <<"opportunities_error_rows", os.error_rows>> >>

---------------------------------------------------------------------------
(* Inputs of build_sf_csvs: the three files the download left in `path` *)

Id4 == <<"c4">>

\* the company pages of the download: c1 and c2 share a name, c3 and c4 have none
JoinPage1 == << Company(Id1, NameN, <<"n.io">>), Company(Id2, NameN, <<"n.io">>) >>

JoinPage2 == << Company(Id3, None, <<"x.io">>), Company(Id4, None, <<"x.io">>) >>

\* companies.sqlite after download_hs_objects persisted the two pages
JoinStore ==
    Only(_persist_company(Only(_persist_company(<<>>, JoinPage1)).store, JoinPage2)).store

\* associations.companies.results of a child, each company kept as its id
Assocs == <<None, <<Id1>>, <<Id2>>, <<Id3>>, <<Id4>>, <<IdUnknown>> >>

\* the properties of a contact as _persist_contact completes them (lines 128-130)
ContactProperties(assoc, lastname) ==
    << <<"firstname", <<"Ann">> >>, <<"lastname", lastname>>,
       <<"email", <<"ann@n.io">> >>, <<"country", <<"DE">> >>,
       <<"associations_companies_results", assoc>> >>

\* the properties of a deal as _persist_deal completes them (lines 144-146)
DealProperties(assoc, dealstage) ==
    << <<"dealname", <<"Deal">> >>, <<"dealtype", <<"newbusiness">> >>,
       <<"dealstage", dealstage>>, <<"amount", <<"100">> >>,
       <<"closedate", <<"2025-01-01", "T", "10:00:00", "Z">> >>,
       <<"associations_companies_results", assoc>> >>

\* the rows contacts.parquet can hold: build_attrs of a contact, complete or
\* without a last name, under every association
ContactRows ==
    [k \in DOMAIN Assocs |->
        build_attrs(CONTACT_FIELDS_MAP, ContactProperties(Assocs[k], <<"Lee">>), None).attrs]
    \o [k \in DOMAIN Assocs |->
        build_attrs(CONTACT_FIELDS_MAP, ContactProperties(Assocs[k], None), None).attrs]

\* the rows deals.parquet can hold: build_attrs of a deal, with a known stage
\* or an unknown one, under every association
DealRows ==
    [k \in DOMAIN Assocs |->
        build_attrs(DEAL_FIELDS_MAP, DealProperties(Assocs[k], <<"closedwon">>), None).attrs]
    \o [k \in DOMAIN Assocs |->
        build_attrs(DEAL_FIELDS_MAP, DealProperties(Assocs[k], <<"unknown">>), None).attrs]

MaxRows == 2

RECURSIVE Compositions(_)
\* the ways to cut n rows into non-empty record batches
Compositions(n) ==
    IF n = 0 THEN {<<>>}
    ELSE UNION {{<<k>> \o c : c \in Compositions(n - k)} : k \in 1..n}

\* the batches iter_batches can hand out for a file of at most MaxRows rows
BatchShapes == UNION {Compositions(n) : n \in 0..MaxRows}

RECURSIVE Sum(_)
Sum(q) == IF q = <<>> THEN 0 ELSE Head(q) + Sum(Tail(q))

IntermediateFiles == {contacts_filename, deals_filename, companies_filename}

ErrorFiles == {csv_errors_accounts_contacts_filename, csv_errors_opportunities_filename}

CsvFiles ==
    {csv_accounts_contacts_filename, csv_opportunities_filename} \cup ErrorFiles

---------------------------------------------------------------------------
(* build_sf_csvs, one step per stretch of code between two loop iterations *)

NoStats == [total_rows |-> 0, error_rows |-> 0]

NoRow == [row |-> <<>>, stream |-> "", error_str |-> None, cells |-> <<>>]

NoProgress == [label |-> "", total_rows |-> 0, rows_count_in_file |-> 0]

\* no download is under way
NoDownload ==
    [pc |-> "idle", phase |-> "", token |-> None, endpoint |-> None, url |-> None,
     requests |-> <<>>,
     total_bytes |-> 0, reported |-> <<>>, retrieved |-> <<>>, delivered |-> <<>>,
     failure |-> ""]

\* build_sf_csvs has not been called
JoinIdle ==
    /\ download = NoDownload
    /\ fs = {companies_filename}
    /\ pc = "idle"
    /\ engine = TRUE
    /\ todo = <<>>
    /\ rows_count_in_file = 0
    /\ stats = NoStats
    /\ accounts_contacts_stats = NoStats
    /\ written = [f \in CsvFiles |-> 0]
    /\ last = NoRow
    /\ progress = NoProgress
    /\ aggregated_stats = <<>>
    /\ failure = <<>>

\* lines 159-228: the check of the three files, initialize_db, and the opening
\* of the contacts pass up to the two headers
BuildSfCsvs ==
    /\ pc = "start"
    /\ IF absent_files(fs) # <<>>
       THEN /\ pc' = "raised"
            /\ failure' = NoFileFound(Head(absent_files(fs)))
            /\ UNCHANGED <<download, store, call, fs, engine, todo, rows_count_in_file, stats,
                           accounts_contacts_stats, written, last, progress,
                           aggregated_stats>>
       ELSE /\ pc' = "contacts"
            /\ engine' = TRUE
            /\ fs' = fs \cup {csv_accounts_contacts_filename,
                              csv_errors_accounts_contacts_filename}
            /\ written' = [written EXCEPT ![csv_accounts_contacts_filename] = 0,
                                          ![csv_errors_accounts_contacts_filename] = 0]
            /\ stats' = NoStats
            /\ \E shape \in BatchShapes :
                  /\ todo' = shape
                  /\ rows_count_in_file' = Sum(shape)
            /\ UNCHANGED <<download, store, call, accounts_contacts_stats, last, progress,
                           aggregated_stats, failure>>

\* a progress that counts the rows of the valid stream only
progress_percent_valid_rows(label, st, rows_count) ==
    [label |-> label, total_rows |-> st.total_rows - st.error_rows,
     rows_count_in_file |-> rows_count]

\* progress_percent_callback(stats["total_rows"] / rows_count_in_file), lines
\* 268 and 345, under the label build_sf_csvs gives the pass (lines 177, 189);
\* the quotient is kept as its two terms
progress_percent_callback(label, st, rows_count) ==
    [label |-> label, total_rows |-> st.total_rows, rows_count_in_file |-> rows_count]

\* the end of one loop iteration on the child `row` with outcome r: the row is
\* counted and, when it was the last of its batch, the progress is reported
\* (lines 258-268, 335-345); an exception leaves build_sf_csvs as it is
RowDone(label, valid_file, errors_file, row, r) ==
    IF r.exc # ""
    THEN /\ pc' = "raised"
         /\ failure' = <<r.exc>>
         /\ UNCHANGED <<download, store, call, fs, engine, todo, rows_count_in_file, stats,
                        accounts_contacts_stats, written, last, progress,
                        aggregated_stats>>
    ELSE /\ stats' = count_row(stats, r.error_str)
         /\ written' = [written EXCEPT
                           ![IF r.stream = "error" THEN errors_file ELSE valid_file] = @ + 1]
         /\ last' = [row |-> row, stream |-> r.stream, error_str |-> r.error_str,
                     cells |-> r.cells]
         /\ todo' = IF Head(todo) = 1 THEN Tail(todo)
                    ELSE <<Head(todo) - 1>> \o Tail(todo)
         /\ progress' = IF Head(todo) = 1
                        THEN progress_percent_callback(label, stats', rows_count_in_file)
                        ELSE progress
         /\ UNCHANGED <<download, store, call, fs, pc, engine, rows_count_in_file,
                        accounts_contacts_stats, aggregated_stats, failure>>

\* _build_accounts_contacts, lines 231-268: the next contact of the file
ContactRow ==
    /\ pc = "contacts"
    /\ todo # <<>>
    /\ \E k \in DOMAIN ContactRows :
          \E r \in {contact_row(store, ContactRows[k])} :
              RowDone("[1/2]", csv_accounts_contacts_filename,
                      csv_errors_accounts_contacts_filename, ContactRows[k], r)

\* a hand-over between the passes that closes the store after the contacts
BuildOpportunities_close_db ==
    /\ pc = "contacts"
    /\ todo = <<>>
    /\ pc' = "deals"
    /\ engine' = FALSE
    /\ accounts_contacts_stats' = stats
    /\ fs' = unlink_if_no_errors(fs, csv_errors_accounts_contacts_filename, stats)
                \cup {csv_opportunities_filename, csv_errors_opportunities_filename}
    /\ written' = [written EXCEPT ![csv_opportunities_filename] = 0,
                                  ![csv_errors_opportunities_filename] = 0]
    /\ stats' = NoStats
    /\ last' = NoRow
    /\ \E shape \in BatchShapes :
          /\ todo' = shape
          /\ rows_count_in_file' = Sum(shape)
    /\ UNCHANGED <<download, store, call, progress, aggregated_stats, failure>>

\* lines 270-273 and 180-189, 297-310: the contacts pass closes its files and
\* returns its stats, the deals pass opens its own up to the two headers
BuildOpportunities ==
    /\ pc = "contacts"
    /\ todo = <<>>
    /\ pc' = "deals"
    /\ accounts_contacts_stats' = stats
    /\ fs' = unlink_if_no_errors(fs, csv_errors_accounts_contacts_filename, stats)
                \cup {csv_opportunities_filename, csv_errors_opportunities_filename}
    /\ written' = [written EXCEPT ![csv_opportunities_filename] = 0,
                                  ![csv_errors_opportunities_filename] = 0]
    /\ stats' = NoStats
    /\ last' = NoRow
    /\ \E shape \in BatchShapes :
          /\ todo' = shape
          /\ rows_count_in_file' = Sum(shape)
    /\ UNCHANGED <<download, store, call, engine, progress, aggregated_stats, failure>>

\* _build_opportunities, lines 313-345: the next deal of the file
DealRow ==
    /\ pc = "deals"
    /\ todo # <<>>
    /\ \E k \in DOMAIN DealRows :
          \E r \in {deal_row(store, DealRows[k])} :
              RowDone("[2/2]", csv_opportunities_filename,
                      csv_errors_opportunities_filename, DealRows[k], r)

\* lines 347-350 and 192-202: the deals pass closes its files, close_db, and
\* the aggregated stats go back to the caller
ReturnStats ==
    /\ pc = "deals"
    /\ todo = <<>>
    /\ pc' = "returned"
    /\ fs' = unlink_if_no_errors(fs, csv_errors_opportunities_filename, stats)
    /\ engine' = FALSE
    /\ aggregated_stats' = aggregate(accounts_contacts_stats, stats)
    /\ UNCHANGED <<download, store, call, todo, rows_count_in_file, stats, accounts_contacts_stats,
                   written, last, progress, failure>>

\* `path` as a download left it, whole or in part, with or without the errors
\* files of an earlier run; build_sf_csvs is about to be called
InitJoin ==
    /\ \E present \in SUBSET IntermediateFiles, stale \in {{}, ErrorFiles} :
          /\ fs = present \cup stale
          /\ store = IF companies_filename \in present THEN JoinStore ELSE <<>>
    /\ call = NoCall
    /\ download = NoDownload
    /\ pc = "start"
    /\ engine = FALSE
    /\ todo = <<>>
    /\ rows_count_in_file = 0
    /\ stats = NoStats
    /\ accounts_contacts_stats = NoStats
    /\ written = [f \in CsvFiles |-> 0]
    /\ last = NoRow
    /\ progress = NoProgress
    /\ aggregated_stats = <<>>
    /\ failure = <<>>

\* an empty companies table behind an open engine
InitDb ==
    /\ store = <<>>
    /\ call = NoCall
    /\ JoinIdle

NextJoin ==
    \/ BuildSfCsvs
    \/ ContactRow
    \/ BuildOpportunities
    \/ DealRow
    \/ ReturnStats

\* every operation that touches the store: the companies_db API and
\* _persist_company on a store that starts empty, the two passes of
\* build_sf_csvs on the store a download left; build_sf_csvs runs in one
\* thread, nothing else calls the store while it runs
NextLifecycle ==
    \/ pc = "idle" /\ AddCompany
    \/ pc = "idle" /\ AddCompanies
    \/ pc = "idle" /\ GetCompany
    \/ pc = "idle" /\ FindCompaniesByName
    \/ pc = "idle" /\ PersistCompany
    \/ pc = "idle" /\ Return
    \/ BuildSfCsvs
    \/ ContactRow
    \/ BuildOpportunities
    \/ DealRow
    \/ ReturnStats

---------------------------------------------------------------------------
(* The functions of field_mapping.py and address_parser.py applied to       *)
(* inputs of any kind; `call` keeps the last application                    *)

\* op(args) returned ret or raised exc; nothing else is touched
Applied(op, args, ret, exc) ==
    /\ call' = [op |-> op, args |-> args, ret |-> ret, exc |-> exc]
    /\ UNCHANGED store
    /\ UNCHANGED joinvars

\* the labels and source fields mapping tables are made of
TableLabels == <<"A", "B", "C">>

TableSources == <<"a", "b", "c">>

MaxFields == 2

\* the orders in which at most MaxFields of the labels can be declared
Declarations ==
    {q \in SeqsUpTo(DOMAIN TableLabels, MaxFields) :
        \A i, j \in DOMAIN q : i # j => q[i] # q[j]}

\* the values an attribute can have: None, "", a text, 0, 7
AttrValues == <<None, <<>>, <<"x">>, PyInt("0"), PyInt("7")>>

\* the attrs that give label i the value AttrValues[c[i]], or no key when c[i] = 0
AttrsOf(c) ==
    LET keyed == SelectSeq([i \in DOMAIN TableLabels |-> <<i, c[i]>>], LAMBDA p : p[2] # 0)
    IN  [k \in DOMAIN keyed |-> <<TableLabels[keyed[k][1]], AttrValues[keyed[k][2]]>>]

\* first_missing_field(fields_map, attrs) on a table without transforms
FirstMissingField ==
    /\ Idle
    /\ \E q \in Declarations, c \in [DOMAIN TableLabels -> 0..Len(AttrValues)] :
        \E required \in [DOMAIN q -> BOOLEAN] :
            \E fields_map \in {[i \in DOMAIN q |->
                                  FieldMap(TableLabels[q[i]], TableSources[q[i]], "",
                                           required[i])]} :
                \E attrs \in {AttrsOf(c)} :
                    Applied("first_missing_field", <<fields_map, attrs>>,
                            first_missing_field(fields_map, attrs), "")

\* tables beside the three declared ones: none at all, a city read from the
\* context before any mapping filled it, a street mapping under other labels,
\* two plain mappings declared against the alphabet
CityFirstMap ==
    << FieldMap("City", "address", "ctx_city", FALSE),
       FieldMap("Street", "address", "_split_street_from_city_zip_code", FALSE) >>

StreetCityMap ==
    << FieldMap("Street", "address", "_split_street_from_city_zip_code", FALSE),
       FieldMap("City", "address", "ctx_city", TRUE) >>

PlainMap == << FieldMap("B", "b", "", TRUE), FieldMap("A", "a", "", FALSE) >>

BuildTables ==
    <<ACCOUNT_FIELDS_MAP, CONTACT_FIELDS_MAP, DEAL_FIELDS_MAP,
      <<>>, CityFirstMap, StreetCityMap, PlainMap>>

AddressOslo == <<"S", ",", " ", "1", " ", "a">>

\* the records build_attrs is applied to: properties of companies, contacts
\* and deals, whole or in part, no properties at all, and None
BuildRecords ==
    << DictGet(Company(Id1, NameN, <<"n.io">>), "properties"),
       DictGet(Company(Id3, None, None), "properties"),
       << <<"name", NameM>>, <<"domain", <<"m.io">> >>, <<"address", AddressOslo>> >>,
       ContactProperties(<<Id1>>, <<"Lee">>),
       DealProperties(<<Id1>>, <<"closedwon">>),
       DictRemove(DealProperties(None, <<"closedwon">>), "closedate"),
       << <<"a", <<"x">> >>, <<"closedate", <<>> >> >>,
       <<>>,
       None >>

\* the days the clock can show when build_attrs is called
Days == {<<"2025-12-20">>, <<"2025-12-21">>}

\* build_attrs(fields_map, hs_record), called on the day `now` (args[3] is the
\* clock, which is no argument of the function); it can follow another
\* build_attrs without the caller doing anything in between
BuildAttrs ==
    /\ call.op \in {"", "build_attrs"}
    /\ \E t \in DOMAIN BuildTables, r \in DOMAIN BuildRecords, now \in Days :
          \E out \in {build_attrs(BuildTables[t], BuildRecords[r], now)} :
              Applied("build_attrs", <<BuildTables[t], BuildRecords[r], now>>,
                      IF out.exc = "" THEN out.attrs ELSE None, out.exc)

\* the characters addresses are made of: a letter, a digit, and the three
\* characters the parser gives a meaning to
AddressAlphabet == {"a", "1", " ", ",", "\n"}

MaxAddrLen == 6

\* the tokens a zip and city part is made of: alphabetic, numeric, alphanumeric
AddressTokens == {<<"a">>, <<"1">>, <<"1", "a">>}

MaxTokens == 4

\* every string of up to MaxAddrLen characters, the street "S" followed by
\* up to MaxTokens tokens, some addresses with other whitespace, and None
Addresses ==
    SeqsUpTo(AddressAlphabet, MaxAddrLen)
      \cup {<<"S", ",">> \o Join(q, " ") : q \in SeqsUpTo(AddressTokens, MaxTokens)}
      \cup {AddressBerlin, AddressOslo, None,
            <<"a", "\r", "\n", "1", "\t", " ", "a">>,
            <<"\t", "a", " ", ",", "\f", "1", " ", "a", "\r">>}

\* parse_address(address)
ParseAddress ==
    /\ Idle
    /\ \E address \in Addresses :
          \E parsed \in {parse_address(address)} :
              Applied("parse_address", <<address>>, parsed, "")

NextPure ==
    \/ FirstMissingField
    \/ BuildAttrs
    \/ ParseAddress
    \/ Return

---------------------------------------------------------------------------
(* src/infra/hubspot.py and download_hs_objects of src/translator.py         *)

hubspot_api_base_url == <<"https", "://", "api.hubapi.com">>

hubspot_api_companies_params == "limit=100&properties=name,industry,address,country,domain"

hubspot_api_contacts_params ==
    "limit=100&properties=firstname,lastname,email,phone,address,country,jobtitle&associations=companies"

hubspot_api_deals_params ==
    "limit=100&properties=dealname,closedate,dealstage,amount,dealtype&associations=companies"

\* urljoin(Settings.hubspot_api_base_url, path) + "?" + params
_build_url(path, params) == hubspot_api_base_url \o <<path, "?", params>>

\* urlparse(endpoint_url).scheme: what stands before "://", "" when there is none
scheme(endpoint_url) ==
    IF Len(endpoint_url) >= 2 /\ endpoint_url[2] = "://" THEN endpoint_url[1] ELSE ""

\* the values paging.next.link of a page can have: absent, empty, the next
\* page of the same endpoint, a page behind plain http
NextLink == <<"https", "://", "api.hubapi.com", "/next", "?", "after=1">>

HttpLink == <<"http", "://", "api.hubapi.com", "/next", "?", "after=1">>

Links == {None, <<>>, NextLink, HttpLink}

\* the endpoints download_objects is called with by the tests
Endpoints ==
    {_build_url(hubspot_api_companies_path, hubspot_api_companies_params),
     <<"https", "://", "some">>, <<"http", "://", "some">>, <<"some">>}

Tokens == {<<"token">>, <<>>, None}

\* json["results"] of the pages of a download that only records them
ObjectPages == << <<>>, <<"object">> >>

\* json["results"] of company pages: none, one company, two companies of
\* different names, a company with a null domain alone and after another
\* one, a company without the domain property after another one
CompanyPages ==
    << <<>>,
       <<CompanyResults[1]>>,
       <<CompanyResults[2], CompanyResults[3]>>,
       <<CompanyResults[6]>>,
       <<CompanyResults[3], CompanyResults[6]>>,
       <<CompanyResults[1], CompanyWithoutDomain(Id2, NameM)>> >>

\* json["results"] of contact and deal pages, which hold a child or two
ChildPages == << <<"child">>, <<"child", "child">> >>

PageResults(phase) ==
    CASE phase = "companies" -> CompanyPages
      [] phase \in {"contacts", "deals"} -> ChildPages
      [] OTHER -> ObjectPages

\* len(response.content)
content_length(page) == 1 + Len(page.results)

MaxRequests == 3

\* a check of the endpoint that lets every scheme pass
download_objects_any_scheme(d, endpoint_url) ==
    IF Falsy(d.token)
    THEN [d EXCEPT !.pc = "raised",
                   !.failure = "ValueError: Can't request HubSpot without token."]
    ELSE [d EXCEPT !.pc = "request", !.url = endpoint_url]

\* download_objects(path, token, endpoint_url, ...), lines 18-22: the two
\* checks before the session is set up
download_objects(d, endpoint_url) ==
    IF scheme(endpoint_url) # "https"
    THEN [d EXCEPT !.pc = "raised",
                   !.failure = "ValueError: Only https protocol is allowed"]
    ELSE IF Falsy(d.token)
    THEN [d EXCEPT !.pc = "raised",
                   !.failure = "ValueError: Can't request HubSpot without token."]
    ELSE [d EXCEPT !.pc = "request", !.url = endpoint_url]

\* what a download leaves alone
downloadframe == <<call, pc, todo, rows_count_in_file, stats, accounts_contacts_stats,
                   written, last, progress, aggregated_stats, failure>>

\* a caller's download_objects(path, token, endpoint_url, progress, json_callback)
\* with callbacks that record what they are given
DownloadObjects ==
    /\ download.pc = "start"
    /\ download' = download_objects([download EXCEPT !.phase = "objects"],
                                     download.endpoint)
    /\ UNCHANGED <<store, fs, engine>>
    /\ UNCHANGED downloadframe

\* download_hs_objects, lines 45-65: the token of the settings, a fresh
\* companies.sqlite, and the download of the companies
DownloadHsObjects ==
    /\ download.pc = "start"
    /\ IF Falsy(download.token)
       THEN /\ download' = [download EXCEPT !.pc = "raised",
                                            !.failure = "ValueError: No HubSpot token"]
            /\ UNCHANGED <<store, fs, engine>>
       ELSE /\ store' = <<>>
            /\ fs' = fs \cup {companies_filename}
            /\ engine' = TRUE
            /\ \E url \in {_build_url(hubspot_api_companies_path,
                                       hubspot_api_companies_params)} :
                  download' = download_objects(
                                  [download EXCEPT !.phase = "companies",
                                                   !.endpoint = url], url)
    /\ UNCHANGED downloadframe

\* session.get(endpoint_url, headers=headers), line 30: a response with a page,
\* or RetryError once the retries are used up
SessionGet ==
    /\ download.pc = "request"
    /\ Len(download.requests) < MaxRequests
    /\ \/ \E k \in DOMAIN PageResults(download.phase), link \in Links :
             download' = [download EXCEPT
                             !.pc = "report",
                             !.requests = Append(@, download.url),
                             !.retrieved = Append(@, [results |->
                                                        PageResults(download.phase)[k],
                                                      link |-> link])]
       \/ download' = [download EXCEPT !.pc = "raised",
                                       !.requests = Append(@, download.url),
                                       !.failure = "RetryError"]
    /\ UNCHANGED <<store, fs, engine>>
    /\ UNCHANGED downloadframe

\* progress_bytes_callback(len(response.content)), line 33; download_hs_objects
\* passes update_progress, which reports the running total (lines 52-55)
ProgressBytesCallback ==
    /\ download.pc = "report"
    /\ \E bytes \in {content_length(download.retrieved[Len(download.retrieved)])} :
          download' = [download EXCEPT
                          !.pc = "deliver",
                          !.total_bytes = @ + bytes,
                          !.reported = Append(@, IF download.phase = "objects" THEN bytes
                                                 ELSE download.total_bytes + bytes)]
    /\ UNCHANGED <<store, fs, engine>>
    /\ UNCHANGED downloadframe

\* json_callback(json), lines 35-36, which is _persist_company for the
\* companies, and lines 38-40: the link of the page is followed or the call
\* returns
JsonCallback ==
    /\ download.pc = "deliver"
    /\ \E page \in {download.retrieved[Len(download.retrieved)]} :
       \E out \in IF download.phase = "companies"
                  THEN _persist_company(store, page.results)
                  ELSE {Outcome(store, None, "")} :
          /\ store' = out.store
          /\ download' =
                IF out.exc # ""
                THEN [download EXCEPT !.pc = "raised",
                                      !.delivered = Append(@, page),
                                      !.failure = out.exc]
                ELSE IF Truthy(page.link)
                THEN download_objects([download EXCEPT !.delivered = Append(@, page)],
                                      page.link)
                ELSE [download EXCEPT !.pc = "done", !.delivered = Append(@, page)]
    /\ UNCHANGED <<fs, engine>>
    /\ UNCHANGED downloadframe

\* download_objects has returned to its caller: download_hs_objects closes
\* what the phase had open and starts the next download (lines 67-85), any
\* other caller goes on
DownloadReturn ==
    /\ download.pc = "done"
    /\ \E fresh \in {[download EXCEPT !.requests = <<>>, !.retrieved = <<>>,
                                      !.delivered = <<>>, !.reported = <<>>]} :
          CASE download.phase = "companies" ->
                  /\ engine' = FALSE
                  /\ fs' = fs \cup {contacts_filename}
                  /\ \E url \in {_build_url(hubspot_api_contacts_path,
                                             hubspot_api_contacts_params)} :
                        download' = download_objects(
                                        [fresh EXCEPT !.phase = "contacts",
                                                      !.endpoint = url], url)
            [] download.phase = "contacts" ->
                  /\ fs' = fs \cup {deals_filename}
                  /\ \E url \in {_build_url(hubspot_api_deals_path,
                                             hubspot_api_deals_params)} :
                        download' = download_objects(
                                        [fresh EXCEPT !.phase = "deals",
                                                      !.endpoint = url], url)
                  /\ UNCHANGED engine
            [] OTHER ->
                  /\ download' = [download EXCEPT !.pc = "returned"]
                  /\ UNCHANGED <<fs, engine>>
    /\ UNCHANGED store
    /\ UNCHANGED downloadframe

\* `path` before a download, empty or with the store of an earlier run; a
\* token and an endpoint are at hand
InitDownload ==
    /\ \E table \in {<<>>, JoinStore} :
          /\ store = table
          /\ fs = IF table = <<>> THEN {} ELSE {companies_filename}
    /\ call = NoCall
    /\ pc = "idle"
    /\ engine = FALSE
    /\ todo = <<>>
    /\ rows_count_in_file = 0
    /\ stats = NoStats
    /\ accounts_contacts_stats = NoStats
    /\ written = [f \in CsvFiles |-> 0]
    /\ last = NoRow
    /\ progress = NoProgress
    /\ aggregated_stats = <<>>
    /\ failure = <<>>
    /\ \E token \in Tokens, endpoint_url \in Endpoints :
          download = [NoDownload EXCEPT !.pc = "start", !.token = token,
                                        !.endpoint = endpoint_url]

NextDownload ==
    \/ DownloadObjects
    \/ DownloadHsObjects
    \/ SessionGet
    \/ ProgressBytesCallback
    \/ JsonCallback
    \/ DownloadReturn

vars == <<store, call, fs, pc, engine, todo, rows_count_in_file, stats,
          accounts_contacts_stats, written, last, progress, aggregated_stats, failure,
          download>>

SpecDb == InitDb /\ [][NextDb]_vars

SpecIngest == InitDb /\ [][NextIngest]_vars

SpecJoin == InitJoin /\ [][NextJoin]_vars

SpecPure == InitDb /\ [][NextPure]_vars

SpecLifecycle == (InitDb \/ InitJoin) /\ [][NextLifecycle]_vars

SpecDownload == InitDownload /\ [][NextDownload]_vars

---------------------------------------------------------------------------
(* Properties of _persist_company over pages (SpecIngest) *)

\* the name HubSpot gave a company of a page, None when it gave none
PageName(result) == DictGet(DictGet(result, "properties"), "name")

\* a page went into the store on this step
Persisted == call'.op = "_persist_company" /\ call'.exc = ""

\* C1: a page persisted into a store with no prior history is stored in input
\* order, and a record is stored with duplicate = true exactly when an earlier
\* record of the same page has the same name; so the first occurrence of each
\* name is stored with duplicate = false
C1_DedupWithinPage ==
    [][(store = <<>> /\ Persisted) =>
          /\ Len(store') = Len(call'.args)
          /\ \A i \in DOMAIN call'.args :
                /\ store'[i].id = DictGet(call'.args[i], "id")
                /\ store'[i].duplicate \in {0, 1}
                /\ store'[i].duplicate = 1 <=>
                      \E j \in 1..(i - 1) :
                          PageName(call'.args[j]) = PageName(call'.args[i])]_vars

\* the page [A(N), B(N), C(M)] went into the empty store: A and C are stored
\* with duplicate = false, B with duplicate = true
C1_Witness ==
    /\ call.op = "_persist_company"
    /\ call.exc = ""
    /\ Len(call.args) = 3
    /\ Len(store) = 3
    /\ <<store[1].name, store[2].name, store[3].name>> = <<NameN, NameN, NameM>>
    /\ <<store[1].duplicate, store[2].duplicate, store[3].duplicate>> = <<0, 1, 0>>

\* C2: when a name is in the store with duplicate = false from an earlier
\* page, every company with that name in a later page is stored with
\* duplicate = true, and every company stored before the page keeps its row,
\* its duplicate = false included
C2_DedupAcrossPages ==
    [][Persisted =>
          /\ Len(store') = Len(store) + Len(call'.args)
          /\ \A k \in DOMAIN store :
                /\ store'[k] = store[k]
                /\ (store[k].duplicate = 0 /\ store[k].name # None) =>
                      \A m \in (Len(store) + 1)..Len(store') :
                          store'[m].name = store[k].name => store'[m].duplicate = 1]_vars

\* a second page repeated a name that the first page stored with
\* duplicate = false: the later company is flagged, the first one is not
C2_Witness ==
    /\ call.op = "_persist_company"
    /\ call.exc = ""
    /\ Len(call.args) = 1
    /\ Len(store) = 2
    /\ store[1].name = NameN /\ store[1].duplicate = 0
    /\ store[2].name = NameN /\ store[2].duplicate = 1

---------------------------------------------------------------------------
(* Properties of the store's interface (SpecDb) *)

\* the (id, attrs, name, duplicate) records an insert call was given
Supplied(c) ==
    IF c.op = "add_company" THEN <<c.args>>
    ELSE IF c.op = "add_companies" THEN c.args
    ELSE <<>>

\* the insert call c reached the database: none of the argument checks
\* stopped it
ReachedDb(c) ==
    /\ c.op \in {"add_company", "add_companies"}
    /\ Supplied(c) # <<>>
    /\ \A i \in DOMAIN Supplied(c) : Truthy(Supplied(c)[i][2])

\* the insert call c brought an id that is null, is already in table, or
\* comes twice in the call
BadId(table, c) ==
    \E i \in DOMAIN Supplied(c) :
        \/ Supplied(c)[i][1] = None
        \/ \E k \in DOMAIN table : table[k].id = Supplied(c)[i][1]
        \/ \E j \in 1..(i - 1) : Supplied(c)[j][1] = Supplied(c)[i][1]

\* the name list of a find_companies_by_name call is refused
RefusedNames(names) ==
    \/ names = None
    \/ names = <<>>
    \/ \E i, j \in DOMAIN names : i < j /\ names[i] = names[j]

\* the rows a name can resolve to: the non-duplicate ones of that name
NonDuplicateOf(name) ==
    {k \in DOMAIN store : store[k].name = name /\ store[k].duplicate = 0}

\* C8: find_companies_by_name fails when the name list is empty or null or
\* holds the same name twice; otherwise it returns a list as long as the input
\* whose position i holds the id of a stored company with name names[i] and
\* duplicate = false, or null when the store has no such company (an entry
\* that is not a name, None, is a miss as well)
C8_FindByName ==
    call.op = "find_companies_by_name" =>
        IF RefusedNames(call.args)
        THEN call.exc # "" /\ call.ret = None
        ELSE /\ call.exc = ""
             /\ Len(call.ret) = Len(call.args)
             /\ \A i \in DOMAIN call.args :
                   IF call.args[i] # None /\ NonDuplicateOf(call.args[i]) # {}
                   THEN \E k \in NonDuplicateOf(call.args[i]) : call.ret[i] = store[k].id
                   ELSE call.ret[i] = None

\* a lookup of two names returned an id for the one and null for the other,
\* whose only company in the store is flagged duplicate
C8_Witness ==
    /\ call.op = "find_companies_by_name"
    /\ call.exc = ""
    /\ Len(call.args) = 2
    /\ \E i, j \in DOMAIN call.args :
          /\ call.ret[i] # None
          /\ call.ret[j] = None
          /\ \E k \in DOMAIN store :
                store[k].name = call.args[j] /\ store[k].duplicate = 1

\* C9: ids are unique and non-null in the store after every sequence of
\* inserts; an insert that brings a null id or an id already present fails
\* and leaves the store as it was, with an integrity error whenever the
\* insert reached the database; and no step changes a row already stored
C9_UniqueIds ==
    /\ [](\A i, j \in DOMAIN store :
              store[i].id # None /\ (i # j => store[i].id # store[j].id))
    /\ [][/\ SubSeq(store', 1, Len(store)) = store
          /\ BadId(store, call') =>
                /\ call'.exc # ""
                /\ store' = store
                /\ ReachedDb(call') => call'.exc \in IntegrityError]_vars

\* add_company was refused an id that is already stored, and the row stored
\* under that id is not the one of the refused call
C9_Witness ==
    /\ call.op = "add_company"
    /\ call.exc = UniqueFailed
    /\ \E k \in DOMAIN store :
          /\ store[k].id = call.args[1]
          /\ store[k].name # call.args[3]
          /\ store[k].duplicate # SqlBoolean(call.args[4])

\* C10: after add_company or add_companies succeeds, get_company of each
\* inserted id returns exactly the attrs and the duplicate flag that were
\* supplied for that id, whether the flag is set or not
C10_RoundTrip ==
    (call.op \in {"add_company", "add_companies"} /\ call.exc = "") =>
        \A i \in DOMAIN Supplied(call) :
            /\ get_company(store, Supplied(call)[i][1]).exc = ""
            /\ get_company(store, Supplied(call)[i][1]).ret.attrs = Supplied(call)[i][2]
            /\ get_company(store, Supplied(call)[i][1]).ret.duplicate = Supplied(call)[i][4]

\* add_companies stored a batch of two, one of them flagged duplicate and
\* with a null among its attrs
C10_Witness ==
    /\ call.op = "add_companies"
    /\ call.exc = ""
    /\ Len(call.args) = 2
    /\ \E i \in DOMAIN call.args :
          /\ call.args[i][4] = TRUE
          /\ \E a \in DOMAIN call.args[i][2] : call.args[i][2][a][2] = None

---------------------------------------------------------------------------
(* Properties of build_sf_csvs (SpecJoin) *)

\* a child row has gone through the loop of the pass that pc names (the deals
\* pass once build_sf_csvs returned)
Judged == pc \in {"contacts", "deals", "returned"} /\ last.stream # ""

ChildMap == IF pc = "contacts" THEN CONTACT_FIELDS_MAP ELSE DEAL_FIELDS_MAP

ChildPath == IF pc = "contacts" THEN hubspot_api_contacts_path ELSE hubspot_api_deals_path

ChildColumns ==
    IF pc = "contacts" THEN accounts_contacts_field_names ELSE opportunities_field_names

\* the required mappings of fields_map that attrs has no value for
MissingOf(fields_map, attrs) ==
    {i \in DOMAIN fields_map :
        fields_map[i].required /\ DictGet(attrs, fields_map[i].sf_label) \in {None, <<>>}}

\* the MISSING_VALUE diagnostic of the first of the mappings `missing`
Diagnostic(path, fields_map, missing) ==
    LET field == fields_map[CHOOSE i \in missing : \A j \in missing : i <= j]
    IN  <<"Missing value ", path, " ", field.src_field, " (", field.sf_label, ")">>

\* the stored company the last child row points to
Parent == store[CHOOSE k \in DOMAIN store : store[k].id = DictGet(last.row, COMPANY_ID_COLUMN)]

ChildMissing == MissingOf(ChildMap, last.row)

ParentMissing == MissingOf(ACCOUNT_FIELDS_MAP, json_loads(Parent.attrs))

\* C3: in both passes the diagnostic of a row is the one of the first failing
\* check in the order child's required fields, parent's required fields,
\* parent's duplicate flag: a child that lacks a required field of its own gets
\* the MISSING_VALUE diagnostic of that field (child API path, source field,
\* target label) whatever its parent is like
C3_DiagnosticPrecedence ==
    Judged =>
        IF ChildMissing # {}
        THEN last.error_str = Diagnostic(ChildPath, ChildMap, ChildMissing)
        ELSE IF ParentMissing # {}
        THEN last.error_str =
                Diagnostic(hubspot_api_companies_path, ACCOUNT_FIELDS_MAP, ParentMissing)
        ELSE Parent.duplicate = 1 => last.error_str = DUPLICATE_COMPANY

\* a child without a required field of its own, under a parent that has no
\* name and is flagged duplicate, got the diagnostic of its own field
C3_Witness ==
    /\ Judged
    /\ ChildMissing # {}
    /\ DictGet(last.row, COMPANY_ID_COLUMN) # None
    /\ ParentMissing # {}
    /\ Parent.duplicate = 1
    /\ last.stream = "error"
    /\ last.error_str[2] = ChildPath

\* C4: a child row goes to the valid writer exactly when it lacks no required
\* field of its own (its parent id included), its parent lacks no required
\* account field and its parent is not flagged duplicate; a child whose only
\* problem is a duplicate parent goes to the errors writer under the
\* diagnostic "Duplicate company name (Account Name)"
C4_ValidIffNoProblem ==
    Judged =>
        /\ last.stream \in {"valid", "error"}
        /\ last.stream = "valid" <=>
              (ChildMissing = {} /\ ParentMissing = {} /\ Parent.duplicate = 0)
        /\ last.stream = "valid" =>
              last.error_str = None /\ Len(last.cells) = Len(ChildColumns)
        /\ (ChildMissing = {} /\ ParentMissing = {} /\ Parent.duplicate = 1) =>
              /\ last.stream = "error"
              /\ last.error_str = <<"Duplicate company name (Account Name)">>
              /\ Len(last.cells) = Len(ChildColumns) + 1
              /\ last.cells[1] = last.error_str

\* a complete child of a complete parent that is flagged duplicate went to
\* the errors writer, after a row that went to the valid writer
C4_Witness ==
    /\ Judged
    /\ ChildMissing = {}
    /\ ParentMissing = {}
    /\ Parent.duplicate = 1
    /\ last.stream = "error"
    /\ stats.total_rows > stats.error_rows

\* the two files of the running pass
ValidFile ==
    IF pc = "contacts" THEN csv_accounts_contacts_filename ELSE csv_opportunities_filename

ErrorsFile ==
    IF pc = "contacts" THEN csv_errors_accounts_contacts_filename
    ELSE csv_errors_opportunities_filename

\* C5: in each pass every child row is written to exactly one of the two
\* writers, so after every row total_rows is the rows written to the valid
\* file plus the rows written to the errors file; a pass ends with total_rows
\* equal to the rows of its parquet file; and the stats build_sf_csvs returns
\* are those counts, with valid + error = total for both outputs
C5_RowsAccounted ==
    /\ [](pc \in {"contacts", "deals", "returned"} =>
            /\ stats.total_rows = written[ValidFile] + written[ErrorsFile]
            /\ stats.error_rows = written[ErrorsFile]
            /\ stats.total_rows + Sum(todo) = rows_count_in_file)
    /\ [][(pc = "contacts" /\ pc' = "deals") =>
             /\ accounts_contacts_stats' = stats
             /\ stats.total_rows = rows_count_in_file]_vars
    /\ [](pc = "returned" =>
            /\ DictGet(aggregated_stats, "accounts_contacts_total_rows")
                  = accounts_contacts_stats.total_rows
            /\ DictGet(aggregated_stats, "accounts_contacts_valid_rows")
                  = written[csv_accounts_contacts_filename]
            /\ DictGet(aggregated_stats, "accounts_contacts_error_rows")
                  = written[csv_errors_accounts_contacts_filename]
            /\ DictGet(aggregated_stats, "accounts_contacts_valid_rows")
                  + DictGet(aggregated_stats, "accounts_contacts_error_rows")
                  = DictGet(aggregated_stats, "accounts_contacts_total_rows")
            /\ DictGet(aggregated_stats, "opportunities_total_rows") = rows_count_in_file
            /\ DictGet(aggregated_stats, "opportunities_valid_rows")
                  = written[csv_opportunities_filename]
            /\ DictGet(aggregated_stats, "opportunities_error_rows")
                  = written[csv_errors_opportunities_filename]
            /\ DictGet(aggregated_stats, "opportunities_valid_rows")
                  + DictGet(aggregated_stats, "opportunities_error_rows")
                  = DictGet(aggregated_stats, "opportunities_total_rows"))

\* build_sf_csvs returned 2 / 1 / 1 as total / valid / error of the contacts
\* pass: one contact in each file
C5_Witness ==
    /\ pc = "returned"
    /\ DictGet(aggregated_stats, "accounts_contacts_total_rows") = 2
    /\ DictGet(aggregated_stats, "accounts_contacts_valid_rows") = 1
    /\ DictGet(aggregated_stats, "accounts_contacts_error_rows") = 1
    /\ written[csv_accounts_contacts_filename] = 1
    /\ written[csv_errors_accounts_contacts_filename] = 1

\* C6: while a pass runs both its files exist; once it has completed, its
\* errors file exists exactly when at least one row was written to it (with
\* none, the file created at the opening is deleted), and its valid file exists
C6_ErrorsFileIffErrors ==
    /\ pc = "contacts" =>
          {csv_accounts_contacts_filename, csv_errors_accounts_contacts_filename} \subseteq fs
    /\ pc = "deals" =>
          {csv_opportunities_filename, csv_errors_opportunities_filename} \subseteq fs
    /\ pc \in {"deals", "returned"} =>
          /\ csv_accounts_contacts_filename \in fs
          /\ csv_errors_accounts_contacts_filename \in fs
                <=> written[csv_errors_accounts_contacts_filename] > 0
    /\ pc = "returned" =>
          /\ csv_opportunities_filename \in fs
          /\ csv_errors_opportunities_filename \in fs
                <=> written[csv_errors_opportunities_filename] > 0

\* build_sf_csvs returned: the contacts pass wrote no error row and has no
\* errors file, the deals pass wrote one and has its errors file
C6_Witness ==
    /\ pc = "returned"
    /\ written[csv_errors_accounts_contacts_filename] = 0
    /\ written[csv_accounts_contacts_filename] > 0
    /\ csv_errors_accounts_contacts_filename \notin fs
    /\ written[csv_errors_opportunities_filename] > 0
    /\ csv_errors_opportunities_filename \in fs

\* build_sf_csvs ended on the check of the three files
FileCheckFailed == pc = "raised" /\ Len(failure) = 3 /\ failure[1] = "No "

\* the check ran before the store was opened and before any output was created
NothingOpened ==
    /\ engine = FALSE
    /\ csv_accounts_contacts_filename \notin fs
    /\ csv_opportunities_filename \notin fs

\* C7 as stated: the three files are checked at the very beginning, before
\* the store is opened or an output is created, and the error raised lists
\* every missing file
C7_ListsEveryMissingFile ==
    (pc # "start" /\ ~(IntermediateFiles \subseteq fs)) =>
        /\ FileCheckFailed
        /\ NothingOpened
        /\ \A filename \in IntermediateFiles \ fs :
              \E i \in DOMAIN failure : failure[i] = filename

\* C7, amended: the three files are checked at the very beginning, before the
\* store is opened or an output is created, and the error raised names the
\* first missing file only, in the order contacts, deals, companies; with all
\* three files there the check raises nothing
C7_NamesFirstMissingFile ==
    pc # "start" =>
        IF IntermediateFiles \subseteq fs THEN ~FileCheckFailed
        ELSE /\ FileCheckFailed
             /\ NothingOpened
             /\ failure[2] = IF contacts_filename \notin fs THEN contacts_filename
                             ELSE IF deals_filename \notin fs THEN deals_filename
                             ELSE companies_filename
             /\ \A i \in DOMAIN failure : i # 2 => failure[i] \notin IntermediateFiles

\* with the deals file and the companies file both missing, the error names
\* the deals file alone
C7_Witness ==
    /\ FileCheckFailed
    /\ contacts_filename \in fs
    /\ deals_filename \notin fs
    /\ companies_filename \notin fs
    /\ failure = <<"No ", "deals.parquet", " file found">>

---------------------------------------------------------------------------
(* More properties of the store's interface (SpecDb) *)

\* the rows stored under the id of a get_company call
StoredUnder(id) == {k \in DOMAIN store : store[k].id = id}

\* C11: get_company fails, and returns no record, when the id is null or
\* empty or when the store holds no company of that id; in every other case
\* it returns the whole record stored under the id, never a default or a
\* partial one
C11_GetCompanyErrors ==
    call.op = "get_company" =>
        IF call.args = None \/ call.args = <<>> \/ StoredUnder(call.args) = {}
        THEN call.exc # "" /\ call.ret = None
        ELSE /\ call.exc = ""
             /\ \E k \in StoredUnder(call.args) :
                   /\ call.ret.attrs = json_loads(store[k].attrs)
                   /\ call.ret.duplicate = (store[k].duplicate = 1)

\* get_company was asked for an id that a store with companies does not hold
C11_Witness ==
    /\ call.op = "get_company"
    /\ call.args = IdUnknown
    /\ store # <<>>
    /\ call.exc = "ValueError: Company not found"
    /\ call.ret = None

---------------------------------------------------------------------------
(* Properties of the mapping functions and the address parser (SpecPure) *)

\* the positions of the required mappings of table that attrs has no truthy
\* value for: no key, None, the empty string or zero
RequiredFalsy(table, attrs) ==
    {i \in DOMAIN table :
        /\ table[i].required
        /\ \/ ~HasKey(attrs, table[i].sf_label)
           \/ DictGet(attrs, table[i].sf_label) \in {None, <<>>, PyInt("0")}}

\* C12: first_missing_field returns (source field, target label) of the
\* earliest declared mapping that is required and whose value is falsy (null,
\* absent, empty string, zero), and none exactly when no required mapping has
\* a falsy value, whatever the values of the mappings that are not required
C12_FirstMissingField ==
    call.op = "first_missing_field" =>
        LET table == call.args[1]
            missing == RequiredFalsy(table, call.args[2])
        IN  IF missing = {} THEN call.ret = None
            ELSE \E i \in missing :
                    /\ \A j \in missing : i <= j
                    /\ call.ret = <<table[i].src_field, table[i].sf_label>>

\* two required mappings lack a value, one through a zero and one through an
\* absent key, and the one declared first is returned
C12_Witness ==
    /\ call.op = "first_missing_field"
    /\ Len(call.args[1]) = 2
    /\ RequiredFalsy(call.args[1], call.args[2]) = {1, 2}
    /\ DictGet(call.args[2], call.args[1][1].sf_label) = PyInt("0")
    /\ ~HasKey(call.args[2], call.args[1][2].sf_label)
    /\ call.ret = <<call.args[1][1].src_field, call.args[1][1].sf_label>>

\* the mapping at position i of table can raise on hs_record: it reads a
\* record that is None, prefixes a domain that is None, or reads a context key
\* that no earlier mapping of the table has set
CanRaise(table, hs_record, i) ==
    \/ hs_record = None
    \/ table[i].transform_fun = "website" /\ DictGet(hs_record, table[i].src_field) = None
    \/ /\ table[i].transform_fun \in {"ctx_city", "ctx_zip_code"}
       /\ \A j \in 1..(i - 1) : table[j].transform_fun # "_split_street_from_city_zip_code"

PatchesBefore(table, i) ==
    {j \in 1..(i - 1) : table[j].transform_fun = "_split_street_from_city_zip_code"}

\* what a context mapping at position i of table reads on hs_record when the
\* context holds the patches of the record's own earlier mappings and nothing else
OwnContextValue(table, hs_record, i) ==
    LET j == CHOOSE k \in PatchesBefore(table, i) : \A l \in PatchesBefore(table, i) : k >= l
        parsed == parse_address(DictGet(hs_record, table[j].src_field))
    IN  IF table[i].transform_fun = "ctx_city" THEN parsed[1] ELSE parsed[3]

\* the outcome c of a build_attrs call shows a context that began empty
ContextOfOwnRecord(c) ==
    LET table == c.args[1]
        hs_record == c.args[2]
    IN  hs_record # None =>
            \A i \in DOMAIN table :
                table[i].transform_fun \in {"ctx_city", "ctx_zip_code"} =>
                    IF PatchesBefore(table, i) = {}
                    THEN c.exc \in {"KeyError", "TypeError"}
                    ELSE c.exc = "" => c.ret[i][2] = OwnContextValue(table, hs_record, i)

\* C14: the context of a build_attrs call starts empty and holds only what
\* the earlier mappings of the same record put there: whatever record was
\* processed just before, a mapping that reads the context gets the city and
\* postal code of its own record's address, and fails on the missing key when
\* no earlier mapping of its table has filled the context
C14_ContextPerRecord ==
    [][(call.op = "build_attrs" /\ call'.op = "build_attrs") => ContextOfOwnRecord(call')]_vars

\* the account table applied to the Oslo company: city and postal code come
\* from the patch of the street mapping declared before them
C14_Witness ==
    /\ call.op = "build_attrs"
    /\ call.exc = ""
    /\ call.args[1] = ACCOUNT_FIELDS_MAP
    /\ DictGet(call.args[2], "address") = AddressOslo
    /\ DictGet(call.ret, "Account Billing City") = <<"a">>
    /\ DictGet(call.ret, "Account Billing Zip/Postal Code") = <<"1">>

\* calls c and d of build_attrs are on the same table and the same record
SameInput(c, d) ==
    /\ c.op = "build_attrs"
    /\ d.op = "build_attrs"
    /\ c.args[1] = d.args[1]
    /\ c.args[2] = d.args[2]

\* the positions of table whose transform reads the clock on hs_record: the
\* close date of a record that has none
ClockColumns(table, hs_record) ==
    IF hs_record = None THEN {}
    ELSE {i \in DOMAIN table : /\ table[i].transform_fun = "_get_closedate"
                               /\ Falsy(DictGet(hs_record, table[i].src_field))}

\* C15 as stated: build_attrs applied twice to the same table and record
\* yields the same output whenever the two calls are made, the deal table on
\* a record without a close date included
C15_PureAtAnyTime ==
    [][SameInput(call, call') => (call'.ret = call.ret /\ call'.exc = call.exc)]_vars

\* C15, amended: build_attrs applied twice to the same table and record
\* raises the same exception or yields the same row both times, whenever the
\* calls are made, but for the close date of a record that has none: that
\* column holds midnight of the day of each call
C15_PureButForToday ==
    [][SameInput(call, call') =>
          /\ call'.exc = call.exc
          /\ call'.exc = "" =>
                \A i \in DOMAIN call'.args[1] :
                    IF i \in ClockColumns(call'.args[1], call'.args[2])
                    THEN /\ call.ret[i] = <<call.args[1][i].sf_label,
                                            call.args[3] \o <<" ", "00:00:00">> >>
                         /\ call'.ret[i] = <<call'.args[1][i].sf_label,
                                             call'.args[3] \o <<" ", "00:00:00">> >>
                    ELSE call'.ret[i] = call.ret[i]]_vars

\* the deal table applied on 2025-12-21 to a deal without close date
C15_Witness ==
    /\ call.op = "build_attrs"
    /\ call.exc = ""
    /\ call.args[1] = DEAL_FIELDS_MAP
    /\ ~HasKey(call.args[2], "closedate")
    /\ call.args[3] = <<"2025-12-21">>
    /\ DictGet(call.ret, "Close Date") = <<"2025-12-21", " ", "00:00:00">>
    /\ DictGet(call.ret, "Stage") = <<"Closed Won">>

\* the data cells of the last written row, without the Error cell that
\* leads a row of the errors stream
DataCells == IF last.stream = "error" THEN Tail(last.cells) ELSE last.cells

\* what the csv holds for the value v
CellOf(v) == IF v = None THEN <<>> ELSE v

\* the last child row went through the contact pass and names a parent
ContactJoined ==
    /\ pc = "contacts"
    /\ last.stream # ""
    /\ Truthy(DictGet(last.row, COMPANY_ID_COLUMN))

\* C16: a contact row with a parent id is written as the parent's attributes
\* merged under the contact's own: the account columns come first and hold
\* the parent's values (the contact's, had it a key of that name), the contact
\* columns follow and hold the contact's values, there is no column for the
\* parent id, and this is so in the valid stream and in the errors stream
C16_ContactMerge ==
    ContactJoined =>
        LET account == Labels(ACCOUNT_FIELDS_MAP)
            contact == SelectSeq(Labels(CONTACT_FIELDS_MAP),
                                 LAMBDA label : label # COMPANY_ID_COLUMN)
            company_attrs == json_loads(Parent.attrs)
        IN  /\ last.stream \in {"valid", "error"}
            /\ Len(DataCells) = Len(account) + Len(contact)
            /\ Len(contact) = Len(CONTACT_FIELDS_MAP) - 1
            /\ \A i \in DOMAIN account :
                  DataCells[i] = IF HasKey(last.row, account[i])
                                 THEN CellOf(DictGet(last.row, account[i]))
                                 ELSE CellOf(DictGet(company_attrs, account[i]))
            /\ \A i \in DOMAIN contact :
                  DataCells[Len(account) + i] = CellOf(DictGet(last.row, contact[i]))

\* a contact without last name under the first company went to the errors
\* stream with the company's name and website next to its own first name
C16_Witness ==
    /\ ContactJoined
    /\ last.stream = "error"
    /\ DictGet(last.row, "Contact Last Name") = None
    /\ DictGet(last.row, COMPANY_ID_COLUMN) = Id1
    /\ last.cells[2] = NameN
    /\ last.cells[3] = <<"https://", "n.io">>
    /\ last.cells[8] = <<"Ann">>

\* the last child row went through the deal pass
DealWritten == pc \in {"deals", "returned"} /\ last.stream # ""

\* C17: a written deal row holds the deal's own values in the deal columns,
\* no column for the parent id, and one further column, "Next Step", which
\* holds the parent's display name (nothing when the deal has no parent or the
\* parent no name); no other attribute of the parent is in any cell
C17_DealTakesNameOnly ==
    DealWritten =>
        LET deal == SelectSeq(Labels(DEAL_FIELDS_MAP),
                              LAMBDA label : label # COMPANY_ID_COLUMN)
            company_id == DictGet(last.row, COMPANY_ID_COLUMN)
        IN  /\ Len(DataCells) = Len(deal) + 1
            /\ Len(deal) = Len(DEAL_FIELDS_MAP) - 1
            /\ \A i \in DOMAIN deal : DataCells[i] = CellOf(DictGet(last.row, deal[i]))
            /\ IF Truthy(company_id)
               THEN /\ DataCells[Len(deal) + 1] =
                          CellOf(DictGet(json_loads(Parent.attrs), ACCOUNTS_NAME_COLUMN))
                    /\ \A k \in DOMAIN json_loads(Parent.attrs) :
                          LET attr == json_loads(Parent.attrs)[k]
                          IN  (attr[1] # ACCOUNTS_NAME_COLUMN /\ Truthy(attr[2])) =>
                                  \A i \in DOMAIN DataCells : DataCells[i] # attr[2]
               ELSE DataCells[Len(deal) + 1] = <<>>

\* a complete deal of the first company went to the valid stream with the
\* company's name under "Next Step"
C17_Witness ==
    /\ DealWritten
    /\ last.stream = "valid"
    /\ DictGet(last.row, COMPANY_ID_COLUMN) = Id1
    /\ Len(last.cells) = 6
    /\ last.cells[1] = <<"Deal">>
    /\ last.cells[6] = NameN
    /\ DictGet(json_loads(Parent.attrs), "Account Website") = <<"https://", "n.io">>

\* the label of the pass that pc names
PassLabel == IF pc = "contacts" THEN "[1/2]" ELSE "[2/2]"

\* the rows the pass p has written to its two files according to w
Processed(w, p) ==
    IF p = "contacts"
    THEN w[csv_accounts_contacts_filename] + w[csv_errors_accounts_contacts_filename]
    ELSE w[csv_opportunities_filename] + w[csv_errors_opportunities_filename]

\* C18: in both passes the progress is reported on the step that ends a
\* record batch and on no other step; the reported value is the number of
\* rows processed so far over the row count of the file's metadata, at most 1
\* and not below the value reported before in the same pass; a pass over a
\* file with rows ends with the value 1 reported last
C18_ProgressPerBatch ==
    [][/\ IF Len(todo') < Len(todo)
          THEN /\ progress' # progress
               /\ progress'.label = PassLabel
               /\ progress'.total_rows = Processed(written', pc)
               /\ progress'.rows_count_in_file = rows_count_in_file
               /\ progress'.total_rows <= progress'.rows_count_in_file
               /\ progress.label = progress'.label =>
                     /\ progress.rows_count_in_file = progress'.rows_count_in_file
                     /\ progress.total_rows <= progress'.total_rows
          ELSE progress' = progress
       /\ (pc \in {"contacts", "deals"} /\ pc' \in {"deals", "returned"} /\ pc' # pc
              /\ rows_count_in_file > 0) =>
             /\ progress.label = PassLabel
             /\ progress.total_rows = progress.rows_count_in_file]_vars

\* the deal pass over a file of two rows in two batches has reported one row
\* of two after its first batch, the row having gone to the errors stream
C18_Witness ==
    /\ pc = "deals"
    /\ todo = <<1>>
    /\ rows_count_in_file = 2
    /\ last.stream = "error"
    /\ progress = [label |-> "[2/2]", total_rows |-> 1, rows_count_in_file |-> 2]

\* the address after step 1: line breaks to commas, whitespace runs to one
\* space, trimmed
Normalized(address) ==
    Strip(ReSubRuns(ReSubRuns(address, LineBreaks, ","), Whitespace, " "))

\* the positions of the commas of s
Commas(s) == {i \in DOMAIN s : s[i] = ","}

\* what follows the first comma of s
AfterComma(s) ==
    LET i == CHOOSE j \in Commas(s) : \A k \in Commas(s) : j <= k
    IN  SubSeq(s, i + 1, Len(s))

\* what precedes the first comma of s
BeforeComma(s) ==
    LET i == CHOOSE j \in Commas(s) : \A k \in Commas(s) : j <= k
    IN  SubSeq(s, 1, i - 1)

RECURSIVE Words(_, _)
\* the maximal runs of characters other than spaces of s, from position i on
Words(s, i) ==
    IF i > Len(s) THEN <<>>
    ELSE IF s[i] = " " THEN Words(s, i + 1)
    ELSE LET stop == IF \E j \in i..Len(s) : s[j] = " "
                     THEN CHOOSE j \in i..Len(s) :
                              s[j] = " " /\ \A k \in i..(j - 1) : s[k] # " "
                     ELSE Len(s) + 1
         IN  <<SubSeq(s, i, stop - 1)>> \o Words(s, stop)

\* address is a string whose normal form has two comma-separated segments,
\* the second of two tokens or more
WellFormed(address) ==
    /\ address # None
    /\ Cardinality(Commas(Normalized(address))) = 1
    /\ Len(Words(AfterComma(Normalized(address)), 1)) >= 2

\* C19: parse_address returns city, street and postal code, none of them
\* null, when the normalized address has exactly two comma-separated segments
\* and the second has at least two space-separated tokens; for every other
\* address it returns null for all three
C19_SuccessIffTwoSegments ==
    call.op = "parse_address" =>
        /\ call.exc = ""
        /\ IF WellFormed(call.args[1])
           THEN \A i \in 1..3 : call.ret[i] # None
           ELSE call.ret = <<None, None, None>>

\* "a,1 a" parsed into city "a", street "a" and postal code "1"
C19_Witness ==
    /\ call.op = "parse_address"
    /\ call.args[1] = <<"a", ",", "1", " ", "a">>
    /\ WellFormed(call.args[1])
    /\ call.ret = << <<"a">>, <<"a">>, <<"1">> >>

\* the tokens of the second segment of a well-formed address
ZipCityTokens(address) == Words(AfterComma(Normalized(address)), 1)

\* how many of the tokens t go to the postal code: those before the first
\* purely alphabetic token that is neither the first nor the last, all but
\* the last when there is none
ZipTokenCount(t) ==
    LET alphabetic == {i \in 2..(Len(t) - 1) : IsAlpha(t[i])}
    IN  IF alphabetic = {} THEN Len(t) - 1
        ELSE (CHOOSE i \in alphabetic : \A j \in alphabetic : i <= j) - 1

\* C20: when parse_address succeeds, the tokens of the second segment are
\* divided in their order between postal code and city, each joined by single
\* spaces: the postal code takes the first token and the interior tokens up to
\* the first purely alphabetic one, the city takes that token and all after
\* it, the last token in any case; the street is the first segment
C20_ZipCityPartition ==
    (call.op = "parse_address" /\ call.ret # <<None, None, None>>) =>
        LET t == ZipCityTokens(call.args[1])
            k == ZipTokenCount(t)
        IN  /\ k \in 1..(Len(t) - 1)
            /\ call.ret[3] = Join(SubSeq(t, 1, k), " ")
            /\ call.ret[1] = Join(SubSeq(t, k + 1, Len(t)), " ")
            /\ call.ret[3] \o <<" ">> \o call.ret[1] = Join(t, " ")
            /\ call.ret[2] = BeforeComma(Normalized(call.args[1]))

\* "S,1 1a a a" parsed into postal code "1 1a" and city "a a"
C20_Witness ==
    /\ call.op = "parse_address"
    /\ call.args[1] = <<"S", ",", "1", " ", "1", "a", " ", "a", " ", "a">>
    /\ call.ret = << <<"a", " ", "a">>, <<"S">>, <<"1", " ", "1", "a">> >>

\* the positions at which a run of carriage returns and line feeds of s begins
BreakRuns(s) ==
    {i \in DOMAIN s : s[i] \in {"\n", "\r"} /\ (i = 1 \/ s[i - 1] \notin {"\n", "\r"})}

\* what follows the first run of carriage returns and line feeds of s
AfterBreak(s) ==
    LET i == CHOOSE j \in BreakRuns(s) : \A k \in BreakRuns(s) : j <= k
        rest == {j \in i..Len(s) : s[j] \notin {"\n", "\r"}}
    IN  IF rest = {} THEN <<>>
        ELSE SubSeq(s, CHOOSE j \in rest : \A k \in rest : j <= k, Len(s))

\* the tokens of s, whatever whitespace separates them
TokensOf(s) == Words(ReSubRuns(s, {" ", "\t", "\f"}, " "), 1)

\* the last call parsed a string without any comma
NoCommaParsed ==
    /\ call.op = "parse_address"
    /\ call.args[1] # None
    /\ Commas(call.args[1]) = {}

\* C21 as stated: an address without any comma fails to parse, with or
\* without a line break between street and zip/city part
C21_NoCommaFails ==
    NoCommaParsed => call.ret = <<None, None, None>>

\* C21, amended: an address without any comma fails to parse unless it holds
\* exactly one run of line breaks with two tokens or more after it; such an
\* address parses, the line break standing for the comma
C21_NoCommaFailsButForLineBreak ==
    NoCommaParsed =>
        IF /\ Cardinality(BreakRuns(call.args[1])) = 1
           /\ Len(TokensOf(AfterBreak(call.args[1]))) >= 2
        THEN /\ \A i \in 1..3 : call.ret[i] # None
             /\ call.ret[3] \o <<" ">> \o call.ret[1] =
                   Join(TokensOf(AfterBreak(call.args[1])), " ")
        ELSE call.ret = <<None, None, None>>

\* "a", carriage return and line feed, "1", tab, space, "a": no comma, parsed
\* into city "a", street "a" and postal code "1"
C21_Witness ==
    /\ NoCommaParsed
    /\ call.args[1] = <<"a", "\r", "\n", "1", "\t", " ", "a">>
    /\ call.ret = << <<"a">>, <<"a">>, <<"1">> >>

\* C22: no operation modifies or deletes a stored company: whatever
\* add_company, add_companies, _persist_company, get_company,
\* find_companies_by_name or a step of a join pass does, succeeding or failing,
\* every company stored before it is stored after it, at its place, with the
\* attrs, name and duplicate flag it had
C22_StoredCompaniesKept ==
    [][\A k \in DOMAIN store : k \in DOMAIN store' /\ store'[k] = store[k]]_vars

\* the first company is stored as it arrived, a second company came after
\* it, and the last call, one more insert under the first company's id, failed
C22_Witness ==
    /\ Len(store) >= 2
    /\ store[1] = Row(Id1, Attrs1, NameN, FALSE)
    /\ call.op \in {"add_company", "add_companies"}
    /\ call.exc = UniqueFailed
    /\ \E k \in DOMAIN CompanyArgs :
          CompanyArgs[k][1] = Id1 /\ CompanyArgs[k][2] # Attrs1
              /\ (call.args = CompanyArgs[k] \/ call.args = <<CompanyArgs[k]>>)

\* C23: build_sf_csvs opens the store once, on the step that starts the
\* contact pass; the deal pass starts only when the contact pass has no row
\* left; the store is closed only on the step that ends the deal pass; every
\* row of either pass, written or ending the pass with a failed lookup, is
\* processed while the store is open
C23_StoreOpenAcrossPasses ==
    [][/\ engine' # engine =>
             IF engine'
             THEN pc = "start" /\ pc' = "contacts"
             ELSE pc = "deals" /\ todo = <<>> /\ pc' = "returned"
       /\ (pc' = "contacts" /\ pc # "contacts") => (pc = "start" /\ engine')
       /\ (pc' = "deals" /\ pc # "deals") =>
             (pc = "contacts" /\ todo = <<>> /\ engine /\ engine')
       /\ (pc' = "returned" /\ pc # "returned") => (pc = "deals" /\ todo = <<>>)
       /\ (last' # last /\ last'.stream # "") =>
             (pc \in {"contacts", "deals"} /\ engine /\ engine')
       /\ (pc' = "raised" /\ pc \in {"contacts", "deals"}) => (engine /\ engine')]_vars

\* the deal pass has written a deal of the first company, after a contact
\* pass that counted a row, and the store is open
C23_Witness ==
    /\ pc = "deals"
    /\ engine
    /\ accounts_contacts_stats.total_rows > 0
    /\ last.stream = "valid"
    /\ DictGet(last.row, COMPANY_ID_COLUMN) = Id1

---------------------------------------------------------------------------
(* C24: download_objects requests the endpoint, reports the size of each
   response, hands each page to the JSON callback once and in the order of
   retrieval, follows paging.next.link, and returns after the first page
   without a link; an endpoint that is not https or an empty token is
   rejected before any request and before any callback *)

C24_PagesDeliveredOnceInOrder ==
    /\ Len(download.retrieved) <= Len(download.requests)
    /\ Len(download.requests) <= Len(download.retrieved) + 1
    /\ Len(download.delivered) <= Len(download.retrieved)
    /\ Len(download.retrieved) <= Len(download.delivered) + 1
    /\ Len(download.reported) <= Len(download.retrieved)
    /\ Len(download.delivered) <= Len(download.reported)
    /\ \A i \in DOMAIN download.delivered : download.delivered[i] = download.retrieved[i]
    /\ \A i \in DOMAIN download.requests :
          download.requests[i] = IF i = 1 THEN download.endpoint
                                 ELSE download.retrieved[i - 1].link
    /\ download.phase = "objects" =>
          \A i \in DOMAIN download.reported :
             download.reported[i] = content_length(download.retrieved[i])
    /\ \A i \in DOMAIN download.delivered :
          i < Len(download.delivered) => Truthy(download.delivered[i].link)
    /\ download.pc = "done" =>
          /\ download.delivered = download.retrieved
          /\ download.reported # <<>>
          /\ Len(download.reported) = Len(download.retrieved)
          /\ Len(download.requests) = Len(download.retrieved)
          /\ Falsy(download.delivered[Len(download.delivered)].link)
    /\ download.pc = "request" => download.delivered = download.retrieved
    /\ (download.pc # "start" /\ download.phase = "objects"
          /\ (scheme(download.endpoint) # "https" \/ Falsy(download.token))) =>
          /\ download.pc = "raised"
          /\ download.requests = <<>>
          /\ download.reported = <<>>
          /\ download.delivered = <<>>

\* two pages were retrieved and delivered and the call has returned
C24_Witness ==
    /\ download.phase = "objects"
    /\ download.pc = "done"
    /\ Len(download.delivered) = 2
    /\ download.delivered[1].link = NextLink

---------------------------------------------------------------------------
(* C25: a child row whose parent id is not empty and not in the store is not
   routed to the error stream: the lookup raises "Company not found", the
   pass ends before the row is written or counted, the rows after it are
   never processed, and the output files stay as far as they were written,
   the errors file included *)

UnknownParent(row) ==
    /\ Truthy(DictGet(row, COMPANY_ID_COLUMN))
    /\ \A i \in DOMAIN store : store[i].id # DictGet(row, COMPANY_ID_COLUMN)

RaisesCompanyNotFound(r) ==
    r.exc = "ValueError: Company not found" /\ r.stream = "" /\ r.cells = <<>>

C25_UnknownParentAborts ==
    [][/\ pc # "raised"
       /\ pc = "contacts" =>
             \A k \in DOMAIN ContactRows :
                UnknownParent(ContactRows[k]) =>
                   RaisesCompanyNotFound(contact_row(store, ContactRows[k]))
       /\ pc = "deals" =>
             \A k \in DOMAIN DealRows :
                UnknownParent(DealRows[k]) =>
                   RaisesCompanyNotFound(deal_row(store, DealRows[k]))
       /\ (pc \in {"contacts", "deals"} /\ pc' = "raised") =>
             /\ failure' = <<"ValueError: Company not found">>
             /\ todo # <<>> /\ todo' = todo
             /\ stats' = stats
             /\ written' = written
             /\ last' = last
             /\ fs' = fs
             /\ pc = "contacts" =>
                   {csv_accounts_contacts_filename,
                    csv_errors_accounts_contacts_filename} \subseteq fs'
             /\ pc = "deals" =>
                   {csv_opportunities_filename,
                    csv_errors_opportunities_filename} \subseteq fs'
             /\ aggregated_stats' = <<>>]_vars

\* the pass ended on an unknown parent after a row had been written
C25_Witness ==
    /\ pc = "raised"
    /\ failure = <<"ValueError: Company not found">>
    /\ stats.total_rows >= 1
    /\ last.row # <<>>
    /\ todo # <<>>

---------------------------------------------------------------------------
(* C26: after any sequence of company pages that _persist_company put into
   an initially empty store, every name, the missing name included, has at
   most one stored company with duplicate = false, and that company is the
   one of its name that arrived first *)

\* the stored companies of the name of row i, a missing name being a name
SameName(i) == {j \in DOMAIN store : store[j].name = store[i].name}

C26_OneOriginalPerName ==
    \A i \in DOMAIN store :
        store[i].duplicate = 0 => \A j \in SameName(i) : i <= j

---------------------------------------------------------------------------
(* C27: a company page with zero results is fatal, not a no-op:
   _persist_company hands an empty name list to find_companies_by_name,
   which raises "No names list provided"; nothing is written to the store
   and the download ends before contacts or deals are retrieved *)

EmptyCompanyPage ==
    /\ download.pc = "deliver"
    /\ download.phase = "companies"
    /\ download.retrieved[Len(download.retrieved)].results = <<>>

C27_EmptyPageIsFatal ==
    [][/\ download.pc # "raised"
       /\ EmptyCompanyPage =>
             /\ download'.pc = "raised"
             /\ download'.failure = "ValueError: No names list provided"
             /\ download'.phase = "companies"
             /\ download'.requests = download.requests
             /\ store' = store
             /\ fs' = fs
             /\ contacts_filename \notin fs'
             /\ deals_filename \notin fs']_vars

\* the second company page was empty: the download ended on it with the
\* companies of the first page in the store
C27_Witness ==
    /\ download.pc = "raised"
    /\ download.failure = "ValueError: No names list provided"
    /\ download.phase = "companies"
    /\ Len(download.delivered) = 2
    /\ download.delivered[2].results = <<>>
    /\ store # <<>>

---------------------------------------------------------------------------
(* C28: add_companies is all-or-nothing: when a record of the batch has
   empty attrs, a null id, or an id that is already in the store or earlier
   in the batch, the call fails and no record of the batch is persisted, so
   the store after the call equals the store before it *)

\* record i of the batch cannot be stored after the records before it
Unstorable(batch, i) ==
    \/ Falsy(batch[i][2])
    \/ batch[i][1] = None
    \/ \E k \in DOMAIN store : store[k].id = batch[i][1]
    \/ \E j \in 1..(i - 1) : batch[j][1] = batch[i][1]

C28_AddCompaniesAllOrNothing ==
    [][(call.op = "" /\ call'.op = "add_companies") =>
          /\ (\E i \in DOMAIN call'.args : Unstorable(call'.args, i)) =>
                /\ call'.exc # ""
                /\ store' = store
          /\ (call'.args # <<>> /\ \A i \in DOMAIN call'.args : ~Unstorable(call'.args, i)) =>
                /\ call'.exc = ""
                /\ Len(store') = Len(store) + Len(call'.args)
                /\ \A k \in DOMAIN store : store'[k] = store[k]
                /\ \A i \in DOMAIN call'.args :
                      store'[Len(store) + i].id = call'.args[i][1]]_vars

\* a batch whose second record repeats an id of the store failed, and the
\* store holds no record of the batch
C28_Witness ==
    /\ call.op = "add_companies"
    /\ call.exc = UniqueFailed
    /\ Len(call.args) = 2
    /\ store # <<>>
    /\ \A k \in DOMAIN store : store[k].id # call.args[1][1]
    /\ \E k \in DOMAIN store : store[k].id = call.args[2][1]

---------------------------------------------------------------------------
(* C29: the account table applied to a company whose domain is absent or
   null does not give a row with a null "Account Website": the website
   transform raises, build_attrs ends with it, and no company of that page
   is persisted, the batch insert of the page is never reached *)

\* the page in delivery has a company without a domain
PageWithoutDomain ==
    /\ download.pc = "deliver"
    /\ download.phase = "companies"
    /\ \E i \in DOMAIN download.retrieved[Len(download.retrieved)].results :
          DictGet(DictGet(download.retrieved[Len(download.retrieved)].results[i],
                          "properties"), "domain") = None

C29_NoDomainAbortsPage ==
    [][/\ PageWithoutDomain =>
             /\ download'.pc = "raised"
             /\ download'.failure = "TypeError"
             /\ store' = store
       /\ download.phase = "companies" =>
             \A k \in DOMAIN store' :
                DictGet(json_loads(store'[k].attrs), "Account Website") # None]_vars

\* a page of a company with a domain and one without the property ended the
\* download, and neither is in the store, which holds the page before
C29_Witness ==
    /\ download.pc = "raised"
    /\ download.failure = "TypeError"
    /\ Len(download.delivered) = 2
    /\ Len(download.delivered[2].results) = 2
    /\ ~HasKey(DictGet(download.delivered[2].results[2], "properties"), "domain")
    /\ Len(store) = Len(download.delivered[1].results)
    /\ store # <<>>

====
